---------------------------- MODULE Spec2Model ----------------------------
(***************************************************************************)
(* Verification model of the LED staircase sketches.                       *)
(*                                                                         *)
(*   SpecMap    the index mapper xyToIndex, in both forms found in the     *)
(*              repository (with and without the bounds check), applied    *)
(*              to one address.                                            *)
(*   SpecSweep  the writers of the 980-LED buffer: the four sweeps of      *)
(*              example.ino and the step sequence of main.ino.             *)
(*   Spec       the stacked animation (two ultrasonic sensors, a stack of  *)
(*              running animations, an additive compositor), one action    *)
(*              per function called from loop(); animationLoop takes one   *)
(*              step per popStack and per animate call.                    *)
(*   SpecFrame  the same loop(), frame by frame over a short time, with    *)
(*              iterations that finish inside the frame budget and ones    *)
(*              that overrun it.                                           *)
(*   SpecCascade  setup() and loop() of mvp.ino: the cascading fade.       *)
(*   SpecCascadeLive  the same under weak fairness of the while loop.      *)
(*   SpecSetup  the same for builds of mvp.ino with other row tables.      *)
(*   SpecTetris the falling blocks of src/unnamed/part_001.                *)
(*   SpecFalling  the falling colours, second sketch of matrix.ino.        *)
(*   SpecMatrix the raindrops, first sketch of matrix.ino.                 *)
(*   SpecConway the Game of Life of conway.ino.                            *)
(***************************************************************************)
EXTENDS Integers, Sequences, FiniteSets, TLC

VARIABLES
    \* ---- index mapper (SpecMap)
    sketch,          \* which sketch's xyToIndex is applied
    step,            \* argument step
    pos,             \* argument pos
    called,          \* TRUE once xyToIndex has returned
    index,           \* the value returned
    tableReads,      \* the indices at which STEP_START / LEDS_PER_STEP were read
    \* ---- buffer writers (SpecSweep)
    writer,          \* the function that is running, "loop" between sequences
    wStep,           \* loop variable step of the running function
    wPos,            \* loop variable pos of the running function
    program,         \* the sketch that runs: "example" or "main"
    lit,             \* the indices i with leds[i] not black; NUM_LEDS stands
                     \* for the memory right behind CRGB leds[NUM_LEDS]
    lastWrite,       \* index of the last assignment leds[index] = ..., or NoWrite
    \* ---- stacked animation (Spec)
    pc,                              \* the function loop() calls next
    clock,                           \* millis()
    frame_start_time,
    animation_stack_start_times,     \* cells 0..9; cell 10 is the memory behind
    animation_stack_starting_point,  \* cells 0..9; cell 10 is the memory behind
    animation_stack_steps,           \* row-major cells, see StepCell
    animation_stack_size,
    last_trigger_time_top,
    last_trigger_time_bottom,
    leds,                            \* CRGB leds[NUM_STEPS * LEDS_PER_STEP]
    slot,                            \* loop variable i of animationLoop
    stepsAddress,                    \* the address of animation_stack_steps
    present,                         \* sensors with something in range this frame
    pushed,                          \* stack indices pushStack wrote this frame
    popped,                          \* popStack calls of this frame's animationLoop
    evaluated,                       \* stack indices animate ran on this frame
                                     \* (emptied when frameLimiter ends the frame)
    shows,                           \* FastLED.show() calls of this iteration
    frame_duration,                  \* local of frameLimiter, as last computed
    reamining_duration,              \* local of frameLimiter: the delay last
                                     \* asked of FastLED.delay, 0 when none was
    frameWorks,                      \* the times (ms) one iteration's work can
                                     \* take; fixed by the initial state
    \* ---- cascading fade of mvp.ino (SpecCascade, SpecSetup)
    mvpPc,               \* "setup", "loop", "frame" (in the while loop of
                         \* runCascadingAnimation) or "return" (behind it)
    mvpMillis,           \* millis()
    frameTime,           \* the time (ms) one iteration of the while loop takes,
                         \* delay(20) included; fixed by the initial state
    topology,            \* the tables LEDS_PER_STEP and STEP_START of the build
    stepStates,          \* StepState stepStates[STEP_COUNT]
    animationStart,      \* locals of runCascadingAnimation
    nextStepToActivate,
    currentMs,
    stepBrightness,      \* local brightness of the update loop, per step
    mvpLeds,             \* CRGB leds[NUM_LEDS] of mvp.ino
    \* ---- falling blocks (SpecTetris)
    board,               \* the cells <<y, x>> with board[y][x] true
    boardColors,         \* boardColors[y][x] of the occupied cells; the
                         \* others are black
    currentPiece,
    currentRotation,
    pieceX,
    pieceY,
    pieceColor,
    tetrisLeds,          \* the pairs <<i, colour>> with leds[i] not black
    lastMove,            \* what the last loop() did with the piece: "fell",
                         \* "locked" or "reset"; "none" after setup()
    \* ---- falling colours, second sketch of matrix.ino (SpecFalling)
    fcPc,                \* "setup" or "loop": the function that runs next
    rand16seed,          \* the state of FastLED's random number generator
    fcTicks,             \* the calls of loop() so far
    stepColors,          \* CRGB stepColors[STEP_COUNT]
    fcLeds,              \* CRGB leds[NUM_LEDS] of the sketch
    drawnColors,         \* the colours shiftColorsDown has drawn, the latest
                         \* first; the last STEP_COUNT of them are kept
    \* ---- raindrops, first sketch of matrix.ino (SpecMatrix)
    mxPc,                \* "loop" (waiting for the PIR sensor) or "frame" (in
                         \* the while loop of runMatrixAnimation)
    mxMillis,            \* millis()
    mxFrames,            \* iterations of the while loop so far
    raindrops,           \* Raindrop raindrops[]: raindrops[i] of the sketch
                         \* is element i + 1; step and speed are counted
                         \* in hundredths of a step
    mxLeds,              \* CRGB leds[NUM_LEDS] of the sketch, as a function
                         \* on the indices that are not black
    startedNow,          \* the drops that runMatrixAnimation initialised
                         \* with startNow = true
    \* ---- Game of Life of conway.ino (SpecConway)
    motionDetected,
    currentGen,          \* the cells <<step, pos>> with currentGen[step][pos]
    nextGen,             \* the cells <<step, pos>> with nextGen[step][pos]
    cwLeds,              \* the indices i with leds[i] not black
    cwRand16seed,        \* the state of FastLED's random number generator
    cwLoops,             \* the calls of loop() since motion was detected
    reseeded             \* whether the last loop() called initializeGrid

mapVars == <<sketch, step, pos, called, index, tableReads>>
sweepVars == <<program, writer, wStep, wPos, lit, lastWrite>>
stackVars == <<pc, clock, frame_start_time, animation_stack_start_times,
               animation_stack_starting_point, animation_stack_steps,
               animation_stack_size, last_trigger_time_top,
               last_trigger_time_bottom, leds, slot, stepsAddress, present,
               pushed, popped, evaluated, shows, frame_duration,
               reamining_duration, frameWorks>>
cascadeVars == <<mvpPc, mvpMillis, frameTime, topology, stepStates,
                 animationStart, nextStepToActivate, currentMs, stepBrightness,
                 mvpLeds>>
tetrisVars == <<board, boardColors, currentPiece, currentRotation, pieceX,
                pieceY, pieceColor, tetrisLeds, lastMove>>
fallingVars == <<fcPc, rand16seed, fcTicks, stepColors, fcLeds, drawnColors>>
matrixVars == <<mxPc, mxMillis, mxFrames, raindrops, mxLeds, startedNow>>
conwayVars == <<motionDetected, currentGen, nextGen, cwLeds, cwRand16seed,
                cwLoops, reseeded>>
vars == <<mapVars, sweepVars, stackVars, cascadeVars, tetrisVars,
         fallingVars,
         matrixVars,
         conwayVars>>

-----------------------------------------------------------------------------
(* Staircase layout: the same constants in every sketch for the 980 LEDs.  *)

NUM_LEDS == 980
STEP_COUNT == 14
MAX_LEDS_PER_STEP == 71

LEDS_PER_STEP == [s \in 0..13 |->
    <<64, 64, 71, 71, 71, 71, 71, 71, 71, 71, 71, 71, 71, 71>>[s + 1]]

STEP_START == [s \in 0..13 |->
    <<0, 64, 128, 199, 270, 341, 412, 483, 554, 625, 696, 767, 838, 909>>[s + 1]]

(* int adjustedPos = (step < 2) ? pos - 7 : pos;                            *)
adjustedPos(s, p) == IF s < 2 THEN p - 7 ELSE p

(* (step & 1) ? start + (len - 1 - adjustedPos) : start + adjustedPos      *)
(* step & 1 is the lowest bit, also for a negative step (two's complement) *)
zigzagSwapped(start, len, s, adj) ==
    IF s % 2 = 1 THEN start + adj ELSE start + (len - 1 - adj)

zigzagOffByOne(start, len, s, adj) ==
    IF s % 2 = 1 THEN start + (len - adj) ELSE start + adj

zigzag(start, len, s, adj) ==
    IF s % 2 = 1 THEN start + (len - 1 - adj) ELSE start + adj

(* xyToIndex of mvp.ino, example.ino, main.ino, matrix.ino (both sketches  *)
(* in that file) and the falling-blocks sketch: bounds check first.        *)
xyToIndexNoPrefix(s, p) ==
    IF s < 0 \/ s >= STEP_COUNT \/ p < 0 \/ p >= MAX_LEDS_PER_STEP
    THEN NUM_LEDS
    ELSE zigzag(STEP_START[s], LEDS_PER_STEP[s], s, IF s < 2 /\ p >= 7 THEN p - 7 ELSE p)

xyToIndex(s, p) ==
    IF s < 0 \/ s >= STEP_COUNT \/ p < 0 \/ p >= MAX_LEDS_PER_STEP
    THEN NUM_LEDS
    ELSE IF s < 2 /\ p < 7
    THEN NUM_LEDS
    ELSE zigzag(STEP_START[s], LEDS_PER_STEP[s], s, adjustedPos(s, p))

(* The table indices xyToIndex reads: none on an early return.             *)
xyToIndexReads(s, p) ==
    IF s < 0 \/ s >= STEP_COUNT \/ p < 0 \/ p >= MAX_LEDS_PER_STEP
    THEN {}
    ELSE IF s < 2 /\ p < 7 THEN {} ELSE {s}

(* xyToIndex of conway.ino and of the hardware notes: no bounds check.     *)
(* A step outside 0..13 that passes the prefix test reads STEP_START and   *)
(* LEDS_PER_STEP outside the arrays; what is read there is not defined by  *)
(* the program, so the call can return any of UndefinedInts.               *)
UndefinedInts == {0 - 1, 0, 127, NUM_LEDS}

xyToIndexUnchecked(s, p) ==
    IF s < 2 /\ p < 7
    THEN {NUM_LEDS}
    ELSE IF s \in DOMAIN STEP_START
    THEN {zigzag(STEP_START[s], LEDS_PER_STEP[s], s, adjustedPos(s, p))}
    ELSE UndefinedInts

xyToIndexUncheckedReads(s, p) ==
    IF s < 2 /\ p < 7 THEN {} ELSE {s}

(* bool isValidCell(step, pos): the cells that have an LED.                *)
isValidCell(s, p) ==
    /\ ~(s < 0 \/ s >= STEP_COUNT)
    /\ ~(p < 0 \/ p >= MAX_LEDS_PER_STEP)
    /\ ~(s < 2 /\ p < 7)

-----------------------------------------------------------------------------
(* SpecMap: one application of xyToIndex to an address drawn from a range  *)
(* that reaches MapMargin cells beyond the grid on every side.             *)

MapMargin == 2

CheckedSketches == {"mvp", "example", "main", "matrix", "fallingColors", "tetris"}
UncheckedSketches == {"conway", "hardwareNotes"}
Sketches == CheckedSketches \cup UncheckedSketches

MapSteps == (0 - MapMargin) .. (STEP_COUNT - 1 + MapMargin)
MapPositions == (0 - MapMargin) .. (MAX_LEDS_PER_STEP - 1 + MapMargin)

MapInit ==
    /\ sketch \in Sketches
    /\ step \in MapSteps
    /\ pos \in MapPositions
    /\ called = FALSE
    /\ index = NUM_LEDS
    /\ tableReads = {}

MapIdle ==
    /\ sketch = "mvp"
    /\ step = 0
    /\ pos = 0
    /\ called = FALSE
    /\ index = NUM_LEDS
    /\ tableReads = {}

-----------------------------------------------------------------------------
(* SpecSweep: the functions that assign to leds[], one action per          *)
(* iteration of their inner loop (one assignment each).                    *)

NoWrite == 0 - 1

SweepInit ==
    /\ program \in {"example", "main"}
    /\ writer = "loop"
    /\ wStep = 0
    /\ wPos = 0
    /\ lit = {}
    /\ lastWrite = NoWrite

SweepIdle ==
    /\ program = "example"
    /\ writer = "loop"
    /\ wStep = 0
    /\ wPos = 0
    /\ lit = {}
    /\ lastWrite = NoWrite

(* void setLedSafe(int index, CRGB color): writes iff index < NUM_LEDS     *)
setLedSafe(i) == i < NUM_LEDS

-----------------------------------------------------------------------------
(* The stacked animation: constants and functions.                         *)

FRAMES_PER_SECOND == 60
MAX_SONAR_DISTANCE == 35
NUM_STEPS == 14
STACK_LEDS_PER_STEP == 3
WAIT_BETWEEN_TRIGGERS == 3000
ANIMATION_STACK_SIZE_MAX == 10
FRAME_DURATION_MAX == 1000 \div FRAMES_PER_SECOND
SONAR_TIMEOUT == 74 * 2 * MAX_SONAR_DISTANCE + 3200
ANIMATION_RUNTIME == 20000 + NUM_STEPS * 1000

(* enum starting_point { TOP, BOTTOM } passed as bool                      *)
TOP == FALSE
BOTTOM == TRUE

Black == <<0, 0, 0>>

(* unsigned long a - b. For a < b the result wraps to 2^32 - (b - a),      *)
(* which for the times of this model is above every value it is compared   *)
(* with; it is represented by the largest integer TLC has.                 *)
Wrapped == 2147483647

Sub32(a, b) == IF a >= b THEN a - b ELSE Wrapped

(* byte getDistance(ping, echo): duration is what pulseIn returns, in us,  *)
(* 0 on timeout                                                            *)
getDistance(duration) ==
    LET distance == ((duration \div 74) \div 2) % 256
        nonzero == IF distance = 0 THEN MAX_SONAR_DISTANCE ELSE distance
    IN  IF nonzero > MAX_SONAR_DISTANCE THEN MAX_SONAR_DISTANCE ELSE nonzero

(* unsigned long brightness =                                              *)
(*   255 * pow(1.5, -pow((duration - i * 1000) / 7400. - 1.35, 10));       *)
(* The curve rises from 0 to 255 and falls back to 0. BrightnessLo[k] and  *)
(* BrightnessHi[k] are the first and the last x (in ms) at which the       *)
(* truncated value is at least k, evaluated in IEEE double precision.      *)
BrightnessLo == <<
    379, 506, 589, 652, 703, 747, 786, 821, 852, 881, 909, 934, 958, 981,
    1002, 1023, 1043, 1062, 1080, 1098, 1115, 1132, 1148, 1164, 1179, 1194,
    1209, 1223, 1237, 1251, 1265, 1278, 1291, 1304, 1316, 1329, 1341, 1353,
    1365, 1376, 1388, 1399, 1411, 1422, 1433, 1444, 1455, 1465, 1476, 1486,
    1497, 1507, 1517, 1527, 1537, 1547, 1557, 1567, 1577, 1587, 1596, 1606,
    1615, 1625, 1634, 1644, 1653, 1662, 1672, 1681, 1690, 1699, 1708, 1717,
    1726, 1735, 1744, 1753, 1762, 1771, 1780, 1789, 1797, 1806, 1815, 1824,
    1832, 1841, 1850, 1858, 1867, 1876, 1884, 1893, 1902, 1910, 1919, 1928,
    1936, 1945, 1953, 1962, 1970, 1979, 1988, 1996, 2005, 2013, 2022, 2031,
    2039, 2048, 2057, 2065, 2074, 2082, 2091, 2100, 2108, 2117, 2126, 2135,
    2143, 2152, 2161, 2170, 2178, 2187, 2196, 2205, 2214, 2223, 2232, 2241,
    2250, 2259, 2268, 2277, 2286, 2295, 2304, 2314, 2323, 2332, 2341, 2351,
    2360, 2370, 2379, 2389, 2398, 2408, 2418, 2427, 2437, 2447, 2457, 2467,
    2477, 2487, 2497, 2507, 2517, 2527, 2538, 2548, 2559, 2569, 2580, 2590,
    2601, 2612, 2623, 2634, 2645, 2656, 2668, 2679, 2691, 2702, 2714, 2726,
    2737, 2749, 2762, 2774, 2786, 2799, 2811, 2824, 2837, 2850, 2863, 2876,
    2890, 2904, 2917, 2931, 2946, 2960, 2975, 2989, 3004, 3020, 3035, 3051,
    3067, 3083, 3099, 3116, 3133, 3150, 3168, 3186, 3204, 3223, 3242, 3261,
    3281, 3302, 3322, 3344, 3366, 3388, 3411, 3435, 3459, 3484, 3510, 3537,
    3565, 3593, 3623, 3654, 3686, 3720, 3755, 3792, 3830, 3871, 3915, 3961,
    4010, 4063, 4120, 4183, 4252, 4329, 4417, 4519, 4641, 4794, 5001, 5336,
    9799
    >>

BrightnessHi == <<
    19601, 19474, 19391, 19328, 19277, 19233, 19194, 19159, 19128, 19099,
    19071, 19046, 19022, 18999, 18978, 18957, 18937, 18918, 18900, 18882,
    18865, 18848, 18832, 18816, 18801, 18786, 18771, 18757, 18743, 18729,
    18715, 18702, 18689, 18676, 18664, 18651, 18639, 18627, 18615, 18604,
    18592, 18581, 18569, 18558, 18547, 18536, 18525, 18515, 18504, 18494,
    18483, 18473, 18463, 18453, 18443, 18433, 18423, 18413, 18403, 18393,
    18384, 18374, 18365, 18355, 18346, 18336, 18327, 18318, 18308, 18299,
    18290, 18281, 18272, 18263, 18254, 18245, 18236, 18227, 18218, 18209,
    18200, 18191, 18183, 18174, 18165, 18156, 18148, 18139, 18130, 18122,
    18113, 18104, 18096, 18087, 18078, 18070, 18061, 18052, 18044, 18035,
    18027, 18018, 18010, 18001, 17992, 17984, 17975, 17967, 17958, 17949,
    17941, 17932, 17923, 17915, 17906, 17898, 17889, 17880, 17872, 17863,
    17854, 17845, 17837, 17828, 17819, 17810, 17802, 17793, 17784, 17775,
    17766, 17757, 17748, 17739, 17730, 17721, 17712, 17703, 17694, 17685,
    17676, 17666, 17657, 17648, 17639, 17629, 17620, 17610, 17601, 17591,
    17582, 17572, 17562, 17553, 17543, 17533, 17523, 17513, 17503, 17493,
    17483, 17473, 17463, 17453, 17442, 17432, 17421, 17411, 17400, 17390,
    17379, 17368, 17357, 17346, 17335, 17324, 17312, 17301, 17289, 17278,
    17266, 17254, 17243, 17231, 17218, 17206, 17194, 17181, 17169, 17156,
    17143, 17130, 17117, 17104, 17090, 17076, 17063, 17049, 17034, 17020,
    17005, 16991, 16976, 16960, 16945, 16929, 16913, 16897, 16881, 16864,
    16847, 16830, 16812, 16794, 16776, 16757, 16738, 16719, 16699, 16678,
    16658, 16636, 16614, 16592, 16569, 16545, 16521, 16496, 16470, 16443,
    16415, 16387, 16357, 16326, 16294, 16260, 16225, 16188, 16150, 16109,
    16065, 16019, 15970, 15917, 15860, 15797, 15728, 15651, 15563, 15461,
    15339, 15186, 14979, 14644, 10181
    >>

(* The intervals BrightnessLo[k] .. BrightnessHi[k] are nested, so the     *)
(* value at x is the largest k in lo..hi whose interval holds x, and       *)
(* lo - 1 when there is none.                                              *)
RECURSIVE brightnessSearch(_, _, _)
brightnessSearch(x, lo, hi) ==
    IF lo > hi
    THEN lo - 1
    ELSE LET mid == (lo + hi) \div 2
         IN  IF BrightnessLo[mid] <= x /\ x <= BrightnessHi[mid]
             THEN brightnessSearch(x, mid + 1, hi)
             ELSE brightnessSearch(x, lo, mid - 1)

brightnessCurve == [x \in 0 .. BrightnessHi[1] |-> brightnessSearch(x, 1, 255)]

brightness(x) == IF x <= BrightnessHi[1] THEN brightnessCurve[x] ELSE 0

(* CRGB animation_stack_steps[ANIMATION_STACK_SIZE_MAX][NUM_STEPS] is laid *)
(* out row by row: virtual_steps[j] of stack slot a is cell a*NUM_STEPS+j. *)
(* Cells from ANIMATION_STACK_SIZE_MAX * NUM_STEPS on are the memory       *)
(* behind the array.                                                       *)
StepCell(a, j) == a * NUM_STEPS + j

StepCells == 0 .. StepCell(ANIMATION_STACK_SIZE_MAX, NUM_STEPS)

(* const int led_index = starting_point ? i : NUM_STEPS - i;               *)
led_index(starting_point, i) == IF starting_point THEN i ELSE NUM_STEPS - i

(* void animate(start_time, starting_point, virtual_steps) on stack slot   *)
(* a: its loop from iteration i on. virtual_steps[led_index] is cell       *)
(* StepCell(a, led_index) of animation_stack_steps.                        *)
RECURSIVE animateFrom(_, _, _, _, _)
animateFrom(steps, duration, starting_point, a, i) ==
    IF i >= NUM_STEPS
    THEN steps
    ELSE LET value == brightness(Sub32(duration, i * 1000))
         IN  animateFrom([steps EXCEPT ![StepCell(a, led_index(starting_point, i))] =
                              <<value, value, value>>],
                         duration, starting_point, a, i + 1)

animate(steps, now, start_time, starting_point, a) ==
    animateFrom(steps, Sub32(now, start_time), starting_point, a, 0)

(* An array as it is stored in memory: the function f, evaluated once      *)
Stored(f) == f @@ <<>>

Min(a, b) == IF a < b THEN a ELSE b

(* The colour CRGB::operator=(uint32_t) makes of an address                *)
colorOfAddress(addr) ==
    <<(addr \div 65536) % 256, (addr \div 256) % 256, addr % 256>>

(* &animation_stack_steps[j]; a CRGB takes 3 bytes                         *)
rowAddress(base, j) == base + j * NUM_STEPS * 3

(* void popStack(): the three arrays and the size afterwards               *)
popStackStartsKeepFront(starts, size) ==
    [i \in DOMAIN starts |->
        IF i > 0 /\ i < size - 1 THEN starts[i + 1] ELSE starts[i]]

popStackStarts(starts, size) ==
    [i \in DOMAIN starts |-> IF i < size - 1 THEN starts[i + 1] ELSE starts[i]]

popStackSteps(steps, size, base) ==
    [c \in DOMAIN steps |->
        IF \E i \in 0 .. size - 2 : c = StepCell(i, 0)
        THEN colorOfAddress(rowAddress(base, (c \div NUM_STEPS) + 1))
        ELSE steps[c]]

(* millis() - animation_stack_start_times[0] > ANIMATION_RUNTIME          *)
isExpired(now, start_time) == Sub32(now, start_time) > ANIMATION_RUNTIME

(* void pushStack(bool starting_point). Index ANIMATION_STACK_SIZE_MAX is  *)
(* behind both arrays: what that memory holds afterwards is behind.time    *)
(* and behind.point, which need not be the values written.                 *)
pushStack(stk, starting_point, now, behind) ==
    IF stk.size < ANIMATION_STACK_SIZE_MAX
    THEN [starts |-> [stk.starts EXCEPT ![stk.size] = now],
          points |-> [stk.points EXCEPT ![stk.size] = starting_point],
          size   |-> stk.size + 1,
          wrote  |-> stk.wrote \cup {stk.size}]
    ELSE [starts |-> [stk.starts EXCEPT ![stk.size] = behind.time],
          points |-> [stk.points EXCEPT ![stk.size] = behind.point],
          size   |-> stk.size + 1,
          wrote  |-> stk.wrote \cup {stk.size}]

(* What the memory behind animation_stack_start_times can hold instead of  *)
(* the value written there                                                 *)
UndefinedTimes == {0}

(* What the memory behind the two arrays can hold after sensorLoop: only   *)
(* a second push from size ANIMATION_STACK_SIZE_MAX - 1 writes there       *)
behindValues(size, now) ==
    IF size + 1 = ANIMATION_STACK_SIZE_MAX
    THEN [time : {now} \cup UndefinedTimes, point : BOOLEAN]
    ELSE {[time |-> now, point |-> BOTTOM]}

(* The test that guards both pushes of sensorLoop                          *)
stackHasRoomInclusive(size) == size <= ANIMATION_STACK_SIZE_MAX

stackHasRoom(size) == size < ANIMATION_STACK_SIZE_MAX

(* distance < MAX_SONAR_DISTANCE && millis() - last_trigger_time > WAIT    *)
triggersNoWait(distance, now, last_trigger_time) ==
    distance < MAX_SONAR_DISTANCE

triggers(distance, now, last_trigger_time) ==
    /\ distance < MAX_SONAR_DISTANCE
    /\ Sub32(now, last_trigger_time) > WAIT_BETWEEN_TRIGGERS

(* frameLimiter: the argument of FastLED.delay, 0 when it is not called    *)
remainingDurationFull(frame_duration_) == FRAME_DURATION_MAX

remainingDuration(frame_duration_) ==
    IF frame_duration_ < FRAME_DURATION_MAX
    THEN FRAME_DURATION_MAX - frame_duration_
    ELSE 0

(* FastLED.delay(ms) sends the buffer while it waits: it loops over        *)
(* delay(1); show(); until ms have passed, so it calls FastLED.show() at   *)
(* least once and at most ms times. Not called (ms = 0 here): no show.     *)
delayShows(ms) == IF ms = 0 THEN {0} ELSE 1 .. ms

(* sum > 255 ? 255 : sum                                                   *)
saturateWrap(sum) == sum % 256

saturate(sum) == IF sum > 255 THEN 255 ELSE sum

(* The inner loop of displayLeds over the stack from slot a on, for the    *)
(* LEDs of one step; acc is leds[i] so far                                 *)
RECURSIVE blendFrom(_, _, _, _, _)
blendFrom(steps, size, s, a, acc) ==
    IF a >= size
    THEN acc
    ELSE blendFrom(steps, size, s, a + 1,
                   <<saturate(acc[1] + steps[StepCell(a, s)][1]),
                     saturate(acc[2] + steps[StepCell(a, s)][2]),
                     saturate(acc[3] + steps[StepCell(a, s)][3])>>)

(* void displayLeds(): the buffer it leaves. LED i = step * LEDS_PER_STEP  *)
(* + led_on_step starts at black and takes the sums of its step.           *)
displayLedsBuffer(steps, size) ==
    [i \in 0 .. NUM_STEPS * STACK_LEDS_PER_STEP - 1 |->
        blendFrom(steps, size, i \div STACK_LEDS_PER_STEP, 0, Black)]

-----------------------------------------------------------------------------
(* Spec: loop() of the stacked animation.                                  *)
(*                                                                         *)
(* Time: every millis() read of one iteration returns the same clock; the  *)
(* iteration's running time is added when frameLimiter reads the clock.    *)
(* One modelled iteration stands for the iterations of FrameWork ms in     *)
(* which no sensor fires. The run is followed up to the sensorLoop of the  *)
(* first iteration that starts at MaxClock or later.                       *)

FrameWork == 7000
MaxClock == 49000

(* What pulseIn can return: timeout, 5 inches, beyond the range            *)
PulseDurations == {0, 740, 8000}

(* Where the linker may put animation_stack_steps. The address is the same *)
(* throughout a run; it is drawn when popStack first uses it, and          *)
(* NoAddress until then.                                                   *)
StepsAddresses == {512, 66000}
NoAddress == 0

StackInit ==
    /\ pc = "sensorLoop"
    /\ clock = 0
    /\ frame_start_time = 0
    /\ animation_stack_start_times = [i \in 0 .. ANIMATION_STACK_SIZE_MAX |-> 0]
    /\ animation_stack_starting_point = [i \in 0 .. ANIMATION_STACK_SIZE_MAX |-> FALSE]
    /\ animation_stack_steps = [c \in StepCells |-> Black]
    /\ animation_stack_size = 0
    /\ last_trigger_time_top = 0
    /\ last_trigger_time_bottom = 0
    /\ leds = [i \in 0 .. NUM_STEPS * STACK_LEDS_PER_STEP - 1 |-> Black]
    /\ slot = 0
    /\ stepsAddress = NoAddress
    /\ present = {}
    /\ pushed = {}
    /\ popped = 0
    /\ evaluated = {}
    /\ shows = 0
    /\ frame_duration = 0
    /\ reamining_duration = 0
    /\ frameWorks = {FrameWork}

StackIdle == StackInit

-----------------------------------------------------------------------------
(* The cascading fade of mvp.ino *)

STEP_ON_INTERVAL_MS == 650
STEP_HOLD_MS == 1500
STEP_FADE_MS == 1000

WARM_WHITE == <<155, 64, 10>>

(* The tables of mvp.ino as one value *)
RepoTopology == [LEDS_PER_STEP |-> LEDS_PER_STEP, STEP_START |-> STEP_START]

(* int xyToIndex(int step, int pos) of mvp.ino, reading the tables t       *)
xyToIndexOn(t, s, p) ==
    IF s < 0 \/ s >= STEP_COUNT \/ p < 0 \/ p >= MAX_LEDS_PER_STEP
    THEN NUM_LEDS
    ELSE IF s < 2 /\ p < 7
         THEN NUM_LEDS
         ELSE zigzag(t.STEP_START[s], t.LEDS_PER_STEP[s], s, adjustedPos(s, p))

(* The body of calculateStepBrightness behind the isActive test, with      *)
(* hold for STEP_HOLD_MS and fade for STEP_FADE_MS                         *)
holdThenFadeNoHold(hold, fade, elapsed) ==
    IF elapsed < hold
    THEN 255
    ELSE IF elapsed < fade
         THEN 255 - ((elapsed * 255) \div fade)
         ELSE 0

holdThenFade(hold, fade, elapsed) ==
    IF elapsed < hold
    THEN 255
    ELSE LET fadeElapsed == elapsed - hold
         IN  IF fadeElapsed < fade
             THEN 255 - ((fadeElapsed * 255) \div fade)
             ELSE 0

(* uint8_t calculateStepBrightness(int step, unsigned long currentMs),     *)
(* state being stepStates[step]                                            *)
calculateStepBrightness(state, now) ==
    IF ~state.isActive
    THEN 0
    ELSE holdThenFade(STEP_HOLD_MS, STEP_FADE_MS, Sub32(now, state.turnOnTime))

(* CRGB::nscale8(brightness) on one channel: (c * (brightness + 1)) >> 8   *)
nscale8(c, scale) == (c * (scale + 1)) \div 256

scaledColor(color, scale) ==
    <<nscale8(color[1], scale), nscale8(color[2], scale), nscale8(color[3], scale)>>

(* void setStepColor(step, color, brightness): the buffer afterwards.      *)
(* setLedSafe writes leds[index] when index < NUM_LEDS.                    *)
setStepColor(buffer, t, s, color, scale) ==
    LET written == {xyToIndexOn(t, s, p) : p \in 0 .. MAX_LEDS_PER_STEP - 1}
        scaled == scaledColor(color, scale)
    IN  [i \in DOMAIN buffer |->
            IF i \in written /\ setLedSafe(i) THEN scaled ELSE buffer[i]]

(* The update loop of runCascadingAnimation from step s on                 *)
RECURSIVE updateSteps(_, _, _, _)
updateSteps(buffer, t, scales, s) ==
    IF s >= STEP_COUNT
    THEN buffer
    ELSE updateSteps(Stored(setStepColor(buffer, t, s, WARM_WHITE, scales[s])),
                     t, scales, s + 1)

(* The activation test of runCascadingAnimation: nextStepToActivate is     *)
(* below STEP_COUNT and elapsed has reached its multiple of the interval   *)
activationDueEarly(next, elapsed) ==
    /\ next < STEP_COUNT
    /\ elapsed + STEP_ON_INTERVAL_MS >= next * STEP_ON_INTERVAL_MS

activationDue(next, elapsed) ==
    /\ next < STEP_COUNT
    /\ elapsed >= next * STEP_ON_INTERVAL_MS

(* animationDuration of runCascadingAnimation                              *)
animationDurationNoFade == (STEP_COUNT - 1) * STEP_ON_INTERVAL_MS + STEP_HOLD_MS

animationDuration == (STEP_COUNT - 1) * STEP_ON_INTERVAL_MS + STEP_HOLD_MS + STEP_FADE_MS

(* FastLED.clear()                                                         *)
clearedLeds == [i \in 0 .. NUM_LEDS - 1 |-> Black]

(* What one iteration of the while loop can take: delay(20) with the 30 ms *)
(* it takes to send 980 LEDs, the same with 3 ms for the update loop, and  *)
(* a slow one                                                              *)
FrameTimes == {50, 53, 1000}

(* loop() is followed while millis() is below MvpHorizon; an animation     *)
(* that has started runs to its end.                                       *)
MvpHorizon == 20

CascadeInit ==
    /\ mvpPc = "setup"
    /\ mvpMillis = 0
    /\ frameTime \in FrameTimes
    /\ topology = RepoTopology
    /\ stepStates = [s \in 0 .. STEP_COUNT - 1 |-> [turnOnTime |-> 0, isActive |-> FALSE]]
    /\ animationStart = 0
    /\ nextStepToActivate = 0
    /\ currentMs = 0
    /\ stepBrightness = [s \in 0 .. STEP_COUNT - 1 |-> 0]
    /\ mvpLeds = clearedLeds

(* The variables of mvp.ino while another sketch runs                      *)
CascadeIdle ==
    /\ mvpPc = "setup"
    /\ mvpMillis = 0
    /\ frameTime = 50
    /\ topology = RepoTopology
    /\ stepStates = [s \in 0 .. STEP_COUNT - 1 |-> [turnOnTime |-> 0, isActive |-> FALSE]]
    /\ animationStart = 0
    /\ nextStepToActivate = 0
    /\ currentMs = 0
    /\ stepBrightness = [s \in 0 .. STEP_COUNT - 1 |-> 0]
    /\ mvpLeds = <<>>

-----------------------------------------------------------------------------
(* The falling blocks of src/unnamed/part_001 *)

NUM_PIECE_TYPES == 7

(* const uint16_t TETROMINOES[][4]: I, O, T, S, Z, J, L, four rotations    *)
(* each, 0x0F00 written 3840 and so on                                     *)
TETROMINOES == <<
    <<3840, 8738, 240, 17476>>,
    <<26112, 26112, 26112, 26112>>,
    <<3648, 19520, 19968, 17984>>,
    <<1728, 35904, 27648, 17952>>,
    <<3168, 19584, 50688, 9792>>,
    <<3712, 50240, 11776, 17600>>,
    <<3616, 17600, 36352, 50240>>>>

PIECE_COLORS == <<"Cyan", "Yellow", "Purple", "Green", "Red", "Blue", "Orange">>

(* 2^n *)
RECURSIVE pow2(_)
pow2(n) == IF n = 0 THEN 1 ELSE 2 * pow2(n - 1)

(* bool getTetrominoCell(int piece, int rotation, int x, int y)            *)
getTetrominoCell(piece, rotation, x, y) ==
    (TETROMINOES[piece + 1][rotation + 1] \div pow2(15 - (y * 4 + x))) % 2 = 1

(* The <<x, y>> of the 4x4 grid that getTetrominoCell finds filled, for    *)
(* every piece and rotation                                                *)
filledCells ==
    Stored([pr \in (0 .. NUM_PIECE_TYPES - 1) \X (0 .. 3) |->
               {c \in (0 .. 3) \X (0 .. 3) :
                   getTetrominoCell(pr[1], pr[2], c[1], c[2])} \cup {}])

(* The cells <<boardY, boardX>> the filled cells of a piece at (px, py)    *)
(* fall on                                                                 *)
pieceCells(piece, rotation, px, py) ==
    {<<py + c[2], px + c[1]>> : c \in filledCells[<<piece, rotation>>]}

(* bool canPlace(int px, int py) against the board b                       *)
canPlace(b, piece, rotation, px, py) ==
    \A c \in pieceCells(piece, rotation, px, py) :
        /\ ~(c[2] < 0 \/ c[2] >= MAX_LEDS_PER_STEP)
        /\ ~(c[1] >= STEP_COUNT)
        /\ ~(c[1] >= 0 /\ c \in b)

(* void lockPiece(): the cells of the piece that are on the board          *)
lockedCells(piece, rotation, px, py) ==
    {c \in pieceCells(piece, rotation, px, py) :
        c[1] >= 0 /\ c[1] < STEP_COUNT /\ c[2] >= 0 /\ c[2] < MAX_LEDS_PER_STEP}

(* bool shouldReset()                                                      *)
shouldResetBox(piece, rotation, px, py) == py < 0

shouldReset(piece, rotation, px, py) ==
    \E c \in pieceCells(piece, rotation, px, py) : c[1] < 0

(* void clearFullRows(), from row on down to row 0: colors is boardColors  *)
(* on the occupied cells, its domain is the board                          *)
rowIsFull(colors, row) ==
    \A col \in 0 .. MAX_LEDS_PER_STEP - 1 : <<row, col>> \in DOMAIN colors

shiftDown(colors, row) ==
    LET cells == {c \in DOMAIN colors : c[1] > row}
                 \cup {<<c[1] + 1, c[2]>> : c \in {d \in DOMAIN colors : d[1] < row}}
    IN  [c \in cells |-> IF c[1] > row THEN colors[c] ELSE colors[<<c[1] - 1, c[2]>>]]

RECURSIVE clearFullRows(_, _)
clearFullRows(colors, row) ==
    IF row < 0
    THEN colors
    ELSE IF rowIsFull(colors, row)
         THEN clearFullRows(shiftDown(colors, row), row)
         ELSE clearFullRows(colors, row - 1)

(* void renderBoard(): the LEDs that are not black afterwards. The locked  *)
(* cells are drawn first, the falling piece over them.                     *)
renderBoard(colors, piece, rotation, px, py, color) ==
    LET falling == lockedCells(piece, rotation, px, py)
        drawn == {c \in falling : xyToIndex(c[1], c[2]) < NUM_LEDS}
        below == {c \in DOMAIN colors :
                     /\ xyToIndex(c[1], c[2]) < NUM_LEDS
                     /\ colors[c] # "Black"
                     /\ c \notin drawn}
    IN  {<<xyToIndex(c[1], c[2]), colors[c]>> : c \in below}
        \cup {<<xyToIndex(c[1], c[2]), color>> : c \in drawn}

(* What random() returns in spawnPiece, of NUM_PIECE_TYPES pieces, 4       *)
(* rotations and MAX_LEDS_PER_STEP - 4 columns                             *)
SpawnPieces == {0}
SpawnRotations == {0, 1}
SpawnColumns == {0}

(* After setup(): clearBoard(); spawnPiece();                              *)
TetrisInit ==
    /\ board = {}
    /\ boardColors = <<>>
    /\ currentPiece \in SpawnPieces
    /\ currentRotation \in SpawnRotations
    /\ pieceX \in SpawnColumns
    /\ pieceY = 0 - 4
    /\ pieceColor = PIECE_COLORS[currentPiece + 1]
    /\ tetrisLeds = {}
    /\ lastMove = "none"

TetrisIdle ==
    /\ board = {}
    /\ boardColors = <<>>
    /\ currentPiece = 0
    /\ currentRotation = 0
    /\ pieceX = 0
    /\ pieceY = 0 - 4
    /\ pieceColor = PIECE_COLORS[1]
    /\ tetrisLeds = {}
    /\ lastMove = "none"
-----------------------------------------------------------------------------
(* The falling colours: the second sketch in src/matrix.ino. It has the    *)
(* tables and the xyToIndex of mvp.ino.                                    *)

(* scale8(i, scale) of FastLED: i * (1 + scale) / 256                      *)
scale8(i, scale) == (i * (1 + scale)) \div 256

(* CRGB(CHSV(hue, 255, 255)): the rainbow conversion of FastLED at full    *)
(* saturation and value. The hue's upper three bits choose one of eight    *)
(* sections, the lower five are the offset in it.                          *)
hsv2rgb_rainbow(hue) ==
    LET offset8 == (hue % 32) * 8
        third == scale8(offset8, 85)
        twothirds == scale8(offset8, 170)
        section == hue \div 32
    IN  CASE section = 0 -> <<255 - third, third, 0>>
          [] section = 1 -> <<171, 85 + third, 0>>
          [] section = 2 -> <<171 - twothirds, 170 + third, 0>>
          [] section = 3 -> <<0, 255 - third, third>>
          [] section = 4 -> <<0, 171 - twothirds, 85 + twothirds>>
          [] section = 5 -> <<third, 0, 255 - third>>
          [] section = 6 -> <<85 + third, 0, 171 - third>>
          [] OTHER -> <<170 + third, 0, 85 - third>>

(* random8() of FastLED: a 16-bit linear congruential generator. The      *)
(* sketch never seeds it, so it starts from the library's RAND16_SEED.    *)
RAND16_SEED == 1337

rand16(seed) == (seed * 2053 + 13849) % 65536

random8(seed) == ((rand16(seed) % 256) + (rand16(seed) \div 256)) % 256

(* CRGB randomHappyColor(), called with the generator in state seed        *)
randomHappyColor(seed) == hsv2rgb_rainbow(random8(seed))

(* The loop of setup(): stepColors[step] = randomHappyColor() from step s  *)
(* on                                                                      *)
RECURSIVE drawStepColors(_, _, _)
drawStepColors(colors, seed, s) ==
    IF s >= STEP_COUNT
    THEN [colors |-> colors, seed |-> seed]
    ELSE drawStepColors([colors EXCEPT ![s] = randomHappyColor(seed)],
                        rand16(seed), s + 1)

(* The loop of shiftColorsDown from step down to 1                         *)
RECURSIVE shiftFrom(_, _)
shiftFrom(colors, s) ==
    IF s <= 0
    THEN colors
    ELSE shiftFrom([colors EXCEPT ![s] = colors[s - 1]], s - 1)

(* The same loop run from step s up to STEP_COUNT - 1                      *)
RECURSIVE shiftUpFrom(_, _)
shiftUpFrom(colors, s) ==
    IF s >= STEP_COUNT
    THEN colors
    ELSE shiftUpFrom([colors EXCEPT ![s] = colors[s - 1]], s + 1)

(* void shiftColorsDown(); fresh is what randomHappyColor() returns        *)
shiftColorsDownAscending(colors, fresh) ==
    [shiftUpFrom(colors, 1) EXCEPT ![0] = fresh]

shiftColorsDown(colors, fresh) ==
    [shiftFrom(colors, STEP_COUNT - 1) EXCEPT ![0] = fresh]

(* The assignments leds[index] = color that updateLeds makes through       *)
(* fillStep, as pairs <<index, step>>: one for every pos of every step     *)
(* whose index is below NUM_LEDS                                           *)
fillStepWrites ==
    {w \in {<<xyToIndex(s, p), s>> :
                s \in 0 .. STEP_COUNT - 1, p \in 0 .. MAX_LEDS_PER_STEP - 1} :
        w[1] < NUM_LEDS}

(* void updateLeds(): the buffer it leaves. fillStep runs for step 0, 1,   *)
(* ... in turn, so an LED keeps the colour of the last step that wrote it, *)
(* and what it held before when no step writes it.                         *)
updateLeds(buffer, colors) ==
    [i \in 0 .. NUM_LEDS - 1 |->
        LET writers == {s \in 0 .. STEP_COUNT - 1 : <<i, s>> \in fillStepWrites}
        IN  IF writers = {}
            THEN buffer[i]
            ELSE colors[CHOOSE s \in writers : \A t \in writers : t <= s]]

(* The calls of loop() that are followed                                   *)
FallTicks == 120

(* Before setup(): the globals are zero                                    *)
FallingInit ==
    /\ fcPc = "setup"
    /\ rand16seed = RAND16_SEED
    /\ fcTicks = 0
    /\ stepColors = [s \in 0 .. STEP_COUNT - 1 |-> Black]
    /\ fcLeds = [i \in 0 .. NUM_LEDS - 1 |-> Black]
    /\ drawnColors = <<>>

FallingIdle ==
    /\ fcPc = "setup"
    /\ rand16seed = RAND16_SEED
    /\ fcTicks = 0
    /\ stepColors = <<>>
    /\ fcLeds = <<>>
    /\ drawnColors = <<>>

-----------------------------------------------------------------------------
(* The raindrops: the first sketch in src/matrix.ino. It has the tables    *)
(* and the xyToIndex of mvp.ino.                                           *)

FRAME_DELAY_MS == 50
TAIL_LENGTH == 7

COLOR_HEAD == <<200, 255, 200>>
COLOR_BRIGHT == <<0, 255, 0>>
COLOR_MEDIUM == <<0, 200, 0>>
COLOR_DIM == <<0, 120, 0>>

(* The drops that are followed, of the NUM_RAINDROPS = 15 of the sketch    *)
RainDrops == 2

(* The iterations of the while loop that are followed                      *)
MatrixFrames == 40

(* The time FastLED.show() takes for 980 LEDs, in ms                       *)
ShowMs == 30

(* What random() returns in the runs followed. Column 5 has no LED on      *)
(* rows 0 and 1; speeds are random(20, 80), starts are -random(1, 10) and  *)
(* respawn delays random(0, 2000).                                         *)
RainColumns == {5, 30}
RainSpeeds == {20, 79}
RainStarts == {1, 9}
RespawnDelays == {0, 1999}

(* void initRaindrop(drop, startNow): the drops it can leave               *)
initRaindrop(startNow) ==
    {[column |-> c,
      step |-> IF startNow THEN 0 ELSE 0 - 100 * above,
      speed |-> v,
      active |-> startNow,
      respawnTime |-> 0] :
        c \in RainColumns, v \in RainSpeeds,
        above \in IF startNow THEN {0} ELSE RainStarts}

(* void updateRaindrop(drop, currentMs): the drops it can leave            *)
updateRaindrop(drop, currentMs_) ==
    IF ~drop.active
    THEN IF currentMs_ >= drop.respawnTime THEN initRaindrop(TRUE) ELSE {drop}
    ELSE IF drop.step + drop.speed > 100 * (STEP_COUNT + TAIL_LENGTH)
         THEN {[drop EXCEPT !.step = drop.step + drop.speed,
                            !.active = FALSE,
                            !.respawnTime = currentMs_ + delay] :
                   delay \in RespawnDelays}
         ELSE {[drop EXCEPT !.step = drop.step + drop.speed]}

(* The loop of runMatrixAnimation over the drops from drop d on, as far as *)
(* updateRaindrop goes: the arrays it can leave                            *)
RECURSIVE updateRaindrops(_, _, _)
updateRaindrops(drops, currentMs_, d) ==
    IF d > Len(drops)
    THEN {drops}
    ELSE UNION {updateRaindrops([drops EXCEPT ![d] = updated], currentMs_, d + 1) :
                    updated \in updateRaindrop(drops[d], currentMs_)}

(* leds[i] of a buffer that holds the LEDs that are not black              *)
ledAt(buffer, i) == IF i \in DOMAIN buffer THEN buffer[i] ELSE Black

(* void setLedSafe(index, color): leds[index] = color                      *)
setLed(buffer, i, color) ==
    IF setLedSafe(i) THEN (i :> color) @@ buffer ELSE buffer

(* leds[index] += tailColor: CRGB::operator+= adds each channel and        *)
(* saturates at 255                                                        *)
addLed(buffer, i, color) ==
    IF i < NUM_LEDS
    THEN (i :> <<saturate(ledAt(buffer, i)[1] + color[1]),
                 saturate(ledAt(buffer, i)[2] + color[2]),
                 saturate(ledAt(buffer, i)[3] + color[3])>>) @@ buffer
    ELSE buffer

(* (int)drop->step                                                         *)
headStepOf(drop) == drop.step \div 100

(* The colour of the i-th LED behind the head: uint8_t brightness = 255 -  *)
(* (i * 255 / (TAIL_LENGTH + 1)); tailColor.nscale8(brightness)            *)
tailColor(i) ==
    scaledColor(IF i = 1 THEN COLOR_BRIGHT ELSE IF i <= 3 THEN COLOR_MEDIUM ELSE COLOR_DIM,
                255 - ((i * 255) \div (TAIL_LENGTH + 1)))

(* drawRaindrop, the loop over the tail from i on                          *)
RECURSIVE drawTail(_, _, _)
drawTail(buffer, drop, i) ==
    IF i > TAIL_LENGTH
    THEN buffer
    ELSE LET tailStep == headStepOf(drop) - i
         IN  drawTail(IF tailStep >= 0 /\ tailStep < STEP_COUNT
                      THEN addLed(buffer, xyToIndex(tailStep, drop.column), tailColor(i))
                      ELSE buffer,
                      drop, i + 1)

(* void drawRaindrop(drop)                                                 *)
drawRaindrop(buffer, drop) ==
    IF ~drop.active
    THEN buffer
    ELSE drawTail(IF headStepOf(drop) >= 0 /\ headStepOf(drop) < STEP_COUNT
                  THEN setLed(buffer, xyToIndex(headStepOf(drop), drop.column),
                              COLOR_HEAD)
                  ELSE buffer,
                  drop, 1)

(* The loop of runMatrixAnimation over the drops from drop d on, as far as *)
(* drawRaindrop goes. updateRaindrop does not read leds and drawRaindrop   *)
(* reads no other drop, so the buffer is the one the interleaved loop      *)
(* leaves.                                                                 *)
RECURSIVE drawRaindrops(_, _, _)
drawRaindrops(buffer, drops, d) ==
    IF d > Len(drops)
    THEN buffer
    ELSE drawRaindrops(drawRaindrop(buffer, drops[d]), drops, d + 1)

(* After setup(): the globals are zero                                     *)
MatrixInit ==
    /\ mxPc = "loop"
    /\ mxMillis = 0
    /\ mxFrames = 0
    /\ raindrops = [d \in 1 .. RainDrops |->
                       [column |-> 0, step |-> 0, speed |-> 0, active |-> FALSE,
                        respawnTime |-> 0]]
    /\ mxLeds = <<>>
    /\ startedNow = {}

MatrixIdle ==
    /\ mxPc = "loop"
    /\ mxMillis = 0
    /\ mxFrames = 0
    /\ raindrops = <<>>
    /\ mxLeds = <<>>
    /\ startedNow = {}

-----------------------------------------------------------------------------
(* The Game of Life of conway.ino. A grid is the set of the cells          *)
(* <<step, pos>> that hold true.                                           *)

(* int startPos = (step < 2) ? 7 : 0; int maxPos = (step < 2) ? 64 : 71;   *)
(* the cells the loops of initializeGrid, computeNextGeneration and        *)
(* updateDisplay visit                                                     *)
startPos(s) == IF s < 2 THEN 7 ELSE 0
maxPos(s) == IF s < 2 THEN 64 ELSE 71

LoopCells ==
    {c \in {<<s, q>> : s \in 0 .. STEP_COUNT - 1, q \in 0 .. MAX_LEDS_PER_STEP - 1} :
        c[2] >= startPos(c[1]) /\ c[2] < maxPos(c[1])}

(* random8(lim) of FastLED: (random8() * lim) >> 8                         *)
random8Below(seed, lim) == (random8(seed) * lim) \div 256

(* The generator advanced k times is seed * m + a (mod 2^16) for the pair  *)
(* <<m, a>> given here: k draws made one after the other, computed by      *)
(* halving k                                                               *)
\* a * b (mod 2^16) of two 16-bit numbers, in parts that stay small
mul16(a, b) == ((((a * (b \div 256)) % 256) * 256) + a * (b % 256)) % 65536

RECURSIVE rand16Steps(_)
rand16Steps(k) ==
    IF k = 0
    THEN <<1, 0>>
    ELSE IF k % 2 = 0
    THEN LET h == rand16Steps(k \div 2)
         IN  <<mul16(h[1], h[1]), (mul16(h[1], h[2]) + h[2]) % 65536>>
    ELSE LET h == rand16Steps(k - 1)
         IN  <<(2053 * h[1]) % 65536, (2053 * h[2] + 13849) % 65536>>

rand16After(seed, k) ==
    (mul16(seed, rand16Steps(k)[1]) + rand16Steps(k)[2]) % 65536

(* The cells the seeding loop of initializeGrid visits before row s, and   *)
(* before cell <<s, q>>                                                    *)
RECURSIVE cellsBeforeRow(_)
cellsBeforeRow(s) ==
    IF s = 0 THEN 0 ELSE cellsBeforeRow(s - 1) + maxPos(s - 1) - startPos(s - 1)

cellsBefore(s, q) == cellsBeforeRow(s) + q - startPos(s)

(* void initializeGrid(), called when the low 16 bits of millis() are ms:  *)
(* both grids cleared, random16_set_seed(millis()), then one random8(100)  *)
(* for every cell the loop visits, in turn; the cell is set when it is     *)
(* below 30                                                                *)
initializeGrid(ms) ==
    [current |-> {c \in LoopCells :
                     random8Below(rand16After(ms, cellsBefore(c[1], c[2])), 100) < 30},
     next |-> {},
     seed |-> rand16After(ms, cellsBeforeRow(STEP_COUNT))]

(* int countNeighbors(step, pos)                                           *)
countNeighbors(current, s, p) ==
    Cardinality({d \in (0 - 1 .. 1) \X (0 - 1 .. 1) :
                    /\ ~(d[1] = 0 /\ d[2] = 0)
                    /\ isValidCell(s + d[1], p + d[2])
                    /\ <<s + d[1], p + d[2]>> \in current})

(* void computeNextGeneration(): nextGen after its first loop, which is    *)
(* also currentGen after the copy. The first loop writes nextGen on the    *)
(* cells it visits and leaves the others as they were.                     *)
computeNextGeneration(current, next) ==
    {c \in LoopCells :
        IF c \in current
        THEN countNeighbors(current, c[1], c[2]) \in {2, 3}
        ELSE countNeighbors(current, c[1], c[2]) = 3}
    \cup {c \in next : c \notin LoopCells}

(* bool isGridEmpty()                                                      *)
isGridEmpty(current) ==
    \A s \in 0 .. STEP_COUNT - 1 :
        \A q \in 0 .. MAX_LEDS_PER_STEP - 1 : <<s, q>> \notin current

(* The indices xyToIndex gives for the cells the loop of updateDisplay     *)
(* visits                                                                  *)
displayIndices == UNION {xyToIndexUnchecked(c[1], c[2]) : c \in LoopCells}

(* void updateDisplay(): the LEDs that are not black afterwards, given     *)
(* the ones that were not black before                                     *)
updateDisplay(before, current) ==
    {i \in before : i \notin displayIndices}
    \cup {i \in UNION {xyToIndexUnchecked(c[1], c[2]) :
                          c \in {d \in current : d \in LoopCells}} :
             setLedSafe(i)}

(* The low 16 bits of millis() when initializeGrid is called, in the runs  *)
(* followed                                                                *)
ConwaySeeds == {53256, 31856}

(* The calls of loop() that are followed once motion is detected          *)
ConwayLoops == 60

(* After setup(): the globals are zero, the LEDs black. setup() seeds the  *)
(* generator from analogRead(0); initializeGrid seeds it again before it   *)
(* is used.                                                                *)
ConwayInit ==
    /\ motionDetected = FALSE
    /\ currentGen = {}
    /\ nextGen = {}
    /\ cwLeds = {}
    /\ cwRand16seed = 0
    /\ cwLoops = 0
    /\ reseeded = FALSE

ConwayIdle == ConwayInit

-----------------------------------------------------------------------------
(* Actions of SpecMap *)

CallChecked ==
    /\ ~called
    /\ sketch \in CheckedSketches
    /\ called' = TRUE
    /\ index' = xyToIndex(step, pos)
    /\ tableReads' = xyToIndexReads(step, pos)
    /\ UNCHANGED <<sketch, step, pos>>
    /\ UNCHANGED <<sweepVars, stackVars, cascadeVars, tetrisVars, fallingVars, matrixVars, conwayVars>>

CallUnchecked ==
    /\ ~called
    /\ sketch \in UncheckedSketches
    /\ called' = TRUE
    /\ index' \in xyToIndexUnchecked(step, pos)
    /\ tableReads' = xyToIndexUncheckedReads(step, pos)
    /\ UNCHANGED <<sketch, step, pos>>
    /\ UNCHANGED <<sweepVars, stackVars, cascadeVars, tetrisVars, fallingVars, matrixVars, conwayVars>>

MapNext == CallChecked \/ CallUnchecked

InitMap == MapInit /\ SweepIdle /\ StackIdle /\ CascadeIdle /\ TetrisIdle /\ FallingIdle /\ MatrixIdle /\ ConwayIdle

SpecMap == InitMap /\ [][MapNext]_vars

-----------------------------------------------------------------------------
(* Actions of SpecSweep *)

(* loop(): digitalRead(PIR_PIN) == HIGH starts the sequence                *)
loopExample ==
    /\ program = "example"
    /\ writer = "loop"
    /\ writer' = "sweepLeftToRight"
    /\ wPos' = 0
    /\ wStep' = 0
    /\ UNCHANGED <<program, lit, lastWrite>>
    /\ UNCHANGED <<mapVars, stackVars, cascadeVars, tetrisVars, fallingVars, matrixVars, conwayVars>>

(* for pos = 0..70: for step = 0..13: leds[xyToIndex(step, pos)] = white   *)
sweepLeftToRight ==
    /\ writer = "sweepLeftToRight"
    /\ lit' = lit \cup {xyToIndex(wStep, wPos)}
    /\ lastWrite' = xyToIndex(wStep, wPos)
    /\ IF wStep + 1 < STEP_COUNT
       THEN /\ wStep' = wStep + 1
            /\ UNCHANGED <<wPos, writer>>
       ELSE IF wPos + 1 < MAX_LEDS_PER_STEP
       THEN /\ wStep' = 0
            /\ wPos' = wPos + 1
            /\ UNCHANGED writer
       ELSE /\ writer' = "sweepRightToLeft"
            /\ wPos' = MAX_LEDS_PER_STEP - 1
            /\ wStep' = 0
    /\ UNCHANGED program
    /\ UNCHANGED <<mapVars, stackVars, cascadeVars, tetrisVars, fallingVars, matrixVars, conwayVars>>

(* for pos = 70..0: for step = 0..13: leds[xyToIndex(step, pos)] = black   *)
sweepRightToLeft ==
    /\ writer = "sweepRightToLeft"
    /\ lit' = lit \ {xyToIndex(wStep, wPos)}
    /\ lastWrite' = xyToIndex(wStep, wPos)
    /\ IF wStep + 1 < STEP_COUNT
       THEN /\ wStep' = wStep + 1
            /\ UNCHANGED <<wPos, writer>>
       ELSE IF wPos - 1 >= 0
       THEN /\ wStep' = 0
            /\ wPos' = wPos - 1
            /\ UNCHANGED writer
       ELSE /\ writer' = "sweepTopToBottom"
            /\ wPos' = 0
            /\ wStep' = 0
    /\ UNCHANGED program
    /\ UNCHANGED <<mapVars, stackVars, cascadeVars, tetrisVars, fallingVars, matrixVars, conwayVars>>

(* for step = 0..13: for pos = 0..70: leds[xyToIndex(step, pos)] = white   *)
sweepTopToBottom ==
    /\ writer = "sweepTopToBottom"
    /\ lit' = lit \cup {xyToIndex(wStep, wPos)}
    /\ lastWrite' = xyToIndex(wStep, wPos)
    /\ IF wPos + 1 < MAX_LEDS_PER_STEP
       THEN /\ wPos' = wPos + 1
            /\ UNCHANGED <<wStep, writer>>
       ELSE IF wStep + 1 < STEP_COUNT
       THEN /\ wPos' = 0
            /\ wStep' = wStep + 1
            /\ UNCHANGED writer
       ELSE /\ writer' = "sweepBottomToTop"
            /\ wPos' = 0
            /\ wStep' = STEP_COUNT - 1
    /\ UNCHANGED program
    /\ UNCHANGED <<mapVars, stackVars, cascadeVars, tetrisVars, fallingVars, matrixVars, conwayVars>>

(* for step = 13..0: for pos = 0..70: leds[xyToIndex(step, pos)] = black;  *)
(* back in loop() afterwards                                               *)
sweepBottomToTop ==
    /\ writer = "sweepBottomToTop"
    /\ lit' = lit \ {xyToIndex(wStep, wPos)}
    /\ lastWrite' = xyToIndex(wStep, wPos)
    /\ IF wPos + 1 < MAX_LEDS_PER_STEP
       THEN /\ wPos' = wPos + 1
            /\ UNCHANGED <<wStep, writer>>
       ELSE IF wStep - 1 >= 0
       THEN /\ wPos' = 0
            /\ wStep' = wStep - 1
            /\ UNCHANGED writer
       ELSE /\ writer' = "loop"
            /\ wPos' = 0
            /\ wStep' = 0
    /\ UNCHANGED program
    /\ UNCHANGED <<mapVars, stackVars, cascadeVars, tetrisVars, fallingVars, matrixVars, conwayVars>>

(* main.ino loop(): digitalRead(PIR_PIN) == HIGH starts runStepSequence    *)
loopMain ==
    /\ program = "main"
    /\ writer = "loop"
    /\ writer' = "lightStep"
    /\ wPos' = 0
    /\ wStep' = 0
    /\ UNCHANGED <<program, lit, lastWrite>>
    /\ UNCHANGED <<mapVars, stackVars, cascadeVars, tetrisVars, fallingVars, matrixVars, conwayVars>>

(* runStepSequence / lightStep: for step: for pos:                         *)
(*   setLedSafe(xyToIndex(step, pos), WARM_WHITE)                          *)
lightStep ==
    /\ writer = "lightStep"
    /\ IF setLedSafe(xyToIndex(wStep, wPos))
       THEN /\ lit' = lit \cup {xyToIndex(wStep, wPos)}
            /\ lastWrite' = xyToIndex(wStep, wPos)
       ELSE UNCHANGED <<lit, lastWrite>>
    /\ IF wPos + 1 < MAX_LEDS_PER_STEP
       THEN /\ wPos' = wPos + 1
            /\ UNCHANGED <<wStep, writer>>
       ELSE IF wStep + 1 < STEP_COUNT
       THEN /\ wPos' = 0
            /\ wStep' = wStep + 1
            /\ UNCHANGED writer
       ELSE /\ writer' = "clear"
            /\ wPos' = 0
            /\ wStep' = 0
    /\ UNCHANGED program
    /\ UNCHANGED <<mapVars, stackVars, cascadeVars, tetrisVars, fallingVars, matrixVars, conwayVars>>

(* runStepSequence: FastLED.clear() blackens the NUM_LEDS registered LEDs  *)
clearLeds ==
    /\ writer = "clear"
    /\ lit' = lit \ (0 .. NUM_LEDS - 1)
    /\ writer' = "loop"
    /\ UNCHANGED <<program, wStep, wPos, lastWrite>>
    /\ UNCHANGED <<mapVars, stackVars, cascadeVars, tetrisVars, fallingVars, matrixVars, conwayVars>>

SweepNext ==
    \/ loopExample
    \/ sweepLeftToRight
    \/ sweepRightToLeft
    \/ sweepTopToBottom
    \/ sweepBottomToTop
    \/ loopMain
    \/ lightStep
    \/ clearLeds

InitSweep == SweepInit /\ MapIdle /\ StackIdle /\ CascadeIdle /\ TetrisIdle /\ FallingIdle /\ MatrixIdle /\ ConwayIdle

SpecSweep == InitSweep /\ [][SweepNext]_vars

-----------------------------------------------------------------------------
(* Actions of Spec *)

(* void sensorLoop(). echoTop and echoBottom are what pulseIn would return *)
(* for the two sensors in this iteration.                                  *)
sensorLoop ==
    /\ pc = "sensorLoop"
    /\ \E echoTop \in PulseDurations, echoBottom \in PulseDurations,
          behind \in behindValues(animation_stack_size, clock) :
        LET stk0 == [starts |-> animation_stack_start_times,
                     points |-> animation_stack_starting_point,
                     size   |-> animation_stack_size,
                     wrote  |-> {}]
            fireTop == /\ stackHasRoom(animation_stack_size)
                       /\ triggers(getDistance(echoTop), clock, last_trigger_time_top)
            stk1 == IF fireTop THEN pushStack(stk0, TOP, clock, behind) ELSE stk0
            fireBottom == /\ stackHasRoom(animation_stack_size)
                          /\ triggers(getDistance(echoBottom), clock,
                                      last_trigger_time_bottom)
            stk2 == IF fireBottom THEN pushStack(stk1, BOTTOM, clock, behind) ELSE stk1
        IN  /\ animation_stack_start_times' = stk2.starts
            /\ animation_stack_starting_point' = stk2.points
            /\ animation_stack_size' = stk2.size
            /\ pushed' = stk2.wrote
            /\ last_trigger_time_top' =
                   IF fireTop THEN clock ELSE last_trigger_time_top
            /\ last_trigger_time_bottom' =
                   IF fireBottom THEN clock ELSE last_trigger_time_bottom
            /\ present' = {s \in {"top"} : getDistance(echoTop) < MAX_SONAR_DISTANCE}
                          \cup {s \in {"bottom"} :
                                    getDistance(echoBottom) < MAX_SONAR_DISTANCE}
    /\ pc' = IF clock >= MaxClock THEN "end" ELSE "animationLoop"
    /\ popped' = 0
    /\ shows' = 0
    /\ UNCHANGED <<clock, frame_start_time, animation_stack_steps, leds, slot,
                   stepsAddress, evaluated, frame_duration, reamining_duration,
                   frameWorks>>
    /\ UNCHANGED <<mapVars, sweepVars, cascadeVars, tetrisVars, fallingVars, matrixVars, conwayVars>>

(* animationLoop(), the while loop: the front is expired, popStack()       *)
popStack ==
    /\ pc = "animationLoop"
    /\ slot = 0
    /\ animation_stack_size > 0
    /\ isExpired(clock, animation_stack_start_times[0])
    /\ \E base \in IF stepsAddress = NoAddress THEN StepsAddresses ELSE {stepsAddress} :
        /\ stepsAddress' = base
        /\ animation_stack_steps' =
               Stored(popStackSteps(animation_stack_steps, animation_stack_size, base))
    /\ animation_stack_start_times' =
           Stored(popStackStarts(animation_stack_start_times, animation_stack_size))
    /\ animation_stack_starting_point' =
           Stored(popStackStarts(animation_stack_starting_point, animation_stack_size))
    /\ animation_stack_size' = animation_stack_size - 1
    /\ popped' = popped + 1
    /\ UNCHANGED <<pc, clock, frame_start_time, last_trigger_time_top,
                   last_trigger_time_bottom, leds, slot, present, pushed,
                   evaluated, shows, frame_duration, reamining_duration,
                   frameWorks>>
    /\ UNCHANGED <<mapVars, sweepVars, cascadeVars, tetrisVars, fallingVars, matrixVars, conwayVars>>

(* animationLoop(), one iteration of the for loop: animate(start_times[i], *)
(* starting_point[i], steps[i])                                            *)
animateSlot ==
    /\ pc = "animationLoop"
    /\ ~(animation_stack_size > 0 /\ isExpired(clock, animation_stack_start_times[0]))
    /\ slot < animation_stack_size
    /\ animation_stack_steps' =
           animate(animation_stack_steps, clock, animation_stack_start_times[slot],
                   animation_stack_starting_point[slot], slot)
    /\ evaluated' = evaluated \cup {slot}
    /\ slot' = slot + 1
    /\ UNCHANGED <<pc, clock, frame_start_time, animation_stack_start_times,
                   animation_stack_starting_point, animation_stack_size,
                   last_trigger_time_top, last_trigger_time_bottom, leds,
                   stepsAddress, present, pushed, popped, shows,
                   frame_duration, reamining_duration, frameWorks>>
    /\ UNCHANGED <<mapVars, sweepVars, cascadeVars, tetrisVars, fallingVars, matrixVars, conwayVars>>

(* animationLoop() returns: the for loop has run over the whole stack      *)
animationLoopReturn ==
    /\ pc = "animationLoop"
    /\ ~(animation_stack_size > 0 /\ isExpired(clock, animation_stack_start_times[0]))
    /\ slot >= animation_stack_size
    /\ pc' = "displayLeds"
    /\ slot' = 0
    /\ UNCHANGED <<clock, frame_start_time, animation_stack_start_times,
                   animation_stack_starting_point, animation_stack_steps,
                   animation_stack_size, last_trigger_time_top,
                   last_trigger_time_bottom, leds, stepsAddress, present, pushed,
                   popped, evaluated, shows, frame_duration,
                   reamining_duration, frameWorks>>
    /\ UNCHANGED <<mapVars, sweepVars, cascadeVars, tetrisVars, fallingVars, matrixVars, conwayVars>>

(* void displayLeds(): the sums, then FastLED.show() *)
displayLeds ==
    /\ pc = "displayLeds"
    /\ leds' = Stored(displayLedsBuffer(animation_stack_steps, animation_stack_size))
    /\ shows' = shows + 1
    /\ pc' = "frameLimiter"
    /\ UNCHANGED <<clock, frame_start_time, animation_stack_start_times,
                   animation_stack_starting_point, animation_stack_steps,
                   animation_stack_size, last_trigger_time_top,
                   last_trigger_time_bottom, slot, stepsAddress, present,
                   pushed, popped, evaluated, frame_duration,
                   reamining_duration, frameWorks>>
    /\ UNCHANGED <<mapVars, sweepVars, cascadeVars, tetrisVars, fallingVars, matrixVars, conwayVars>>

(* void frameLimiter(): FastLED.delay for what is left of the frame. work  *)
(* is the time the iteration has taken when frameLimiter reads millis().   *)
frameLimiter ==
    /\ pc = "frameLimiter"
    /\ \E work \in frameWorks :
        LET now == clock + work
            duration == Sub32(now, frame_start_time)
        IN  /\ frame_duration' = duration
            /\ reamining_duration' = remainingDuration(duration)
            /\ clock' = now + remainingDuration(duration)
            /\ frame_start_time' = now + remainingDuration(duration)
            /\ \E n \in delayShows(remainingDuration(duration)) : shows' = shows + n
    /\ pc' = "sensorLoop"
    /\ evaluated' = {}
    /\ UNCHANGED <<animation_stack_start_times, animation_stack_starting_point,
                   animation_stack_steps, animation_stack_size,
                   last_trigger_time_top, last_trigger_time_bottom, leds, slot,
                   stepsAddress, present, pushed, popped, frameWorks>>
    /\ UNCHANGED <<mapVars, sweepVars, cascadeVars, tetrisVars, fallingVars, matrixVars, conwayVars>>

Next ==
    \/ sensorLoop
    \/ popStack
    \/ animateSlot
    \/ animationLoopReturn
    \/ displayLeds
    \/ frameLimiter

Init == StackInit /\ MapIdle /\ SweepIdle /\ CascadeIdle /\ TetrisIdle /\ FallingIdle /\ MatrixIdle /\ ConwayIdle

Spec == Init /\ [][Next]_vars

-----------------------------------------------------------------------------
(* SpecFrame: the same loop(), followed frame by frame over the last       *)
(* FineSpan ms before MaxClock. An iteration's work takes one of FineWorks *)
(* ms: less than FRAME_DURATION_MAX, exactly that, or more.                *)
(*                                                                         *)
(* It starts where the program is when somebody passed the top sensor      *)
(* ANIMATION_RUNTIME - 5 ms ago and the bottom sensor 2 s ago, and the     *)
(* previous iteration took FRAME_DURATION_MAX ms: two animations on the    *)
(* stack, the front one about to expire, and the buffers as that previous  *)
(* iteration left them.                                                    *)

FineSpan == 64
FineWorks == {5, FRAME_DURATION_MAX, 21}

FrameInit ==
    LET start == MaxClock - FineSpan
        prev == start - FRAME_DURATION_MAX
        old == start - ANIMATION_RUNTIME + 5
        recent == start - 2000
        steps0 == animate(animate([c \in StepCells |-> Black], prev, old, TOP, 0),
                          prev, recent, BOTTOM, 1)
    IN  /\ pc = "sensorLoop"
        /\ clock = start
        /\ frame_start_time = start
        /\ animation_stack_start_times =
               [i \in 0 .. ANIMATION_STACK_SIZE_MAX |->
                   IF i = 0 THEN old ELSE IF i = 1 THEN recent ELSE 0]
        /\ animation_stack_starting_point =
               [i \in 0 .. ANIMATION_STACK_SIZE_MAX |-> IF i = 1 THEN BOTTOM ELSE TOP]
        /\ animation_stack_steps = Stored(steps0)
        /\ animation_stack_size = 2
        /\ last_trigger_time_top = old
        /\ last_trigger_time_bottom = recent
        /\ leds = Stored(displayLedsBuffer(steps0, 2))
        /\ slot = 0
        /\ stepsAddress = NoAddress
        /\ present = {}
        /\ pushed = {}
        /\ popped = 0
        /\ evaluated = {}
        /\ shows = 1
        /\ frame_duration = FRAME_DURATION_MAX
        /\ reamining_duration = 0
        /\ frameWorks = FineWorks

InitFrame == FrameInit /\ MapIdle /\ SweepIdle /\ CascadeIdle /\ TetrisIdle /\ FallingIdle /\ MatrixIdle /\ ConwayIdle

SpecFrame == InitFrame /\ [][Next]_vars

-----------------------------------------------------------------------------
(* SpecCascade: setup() and loop() of mvp.ino. *)

(* void setup(): FastLED.clear(); FastLED.show();                          *)
setupMvp ==
    /\ mvpPc = "setup"
    /\ mvpLeds' = clearedLeds
    /\ mvpPc' = "loop"
    /\ UNCHANGED <<mvpMillis, frameTime, topology, stepStates, animationStart,
                   nextStepToActivate, currentMs, stepBrightness>>
    /\ UNCHANGED <<mapVars, sweepVars, stackVars, tetrisVars, fallingVars, matrixVars, conwayVars>>

(* void loop(): with the PIR pin HIGH it enters runCascadingAnimation, up  *)
(* to the while loop; else delay(10)                                       *)
loopMvp ==
    /\ mvpPc = "loop"
    /\ mvpMillis < MvpHorizon
    /\ \E pir \in BOOLEAN :
        IF pir
        THEN /\ stepStates' = [s \in 0 .. STEP_COUNT - 1 |->
                                  [turnOnTime |-> 0, isActive |-> FALSE]]
             /\ animationStart' = mvpMillis
             /\ nextStepToActivate' = 0
             /\ currentMs' = mvpMillis
             /\ stepBrightness' = [s \in 0 .. STEP_COUNT - 1 |-> 0]
             /\ mvpPc' = "frame"
             /\ UNCHANGED mvpMillis
        ELSE /\ mvpMillis' = mvpMillis + 10
             /\ UNCHANGED <<mvpPc, stepStates, animationStart, nextStepToActivate,
                            currentMs, stepBrightness>>
    /\ UNCHANGED <<frameTime, topology, mvpLeds>>
    /\ UNCHANGED <<mapVars, sweepVars, stackVars, tetrisVars, fallingVars, matrixVars, conwayVars>>

(* One iteration of the while loop of runCascadingAnimation                *)
cascadeFrame ==
    /\ mvpPc = "frame"
    /\ LET now == mvpMillis
           elapsed == Sub32(now, animationStart)
           activate == activationDue(nextStepToActivate, elapsed)
           states == IF activate
                     THEN [stepStates EXCEPT ![nextStepToActivate] =
                              [turnOnTime |-> now, isActive |-> TRUE]]
                     ELSE stepStates
           scales == [s \in 0 .. STEP_COUNT - 1 |->
                         calculateStepBrightness(states[s], now)]
           anyStepActive == \E s \in 0 .. STEP_COUNT - 1 : scales[s] > 0
       IN  /\ currentMs' = now
           /\ stepStates' = states
           /\ nextStepToActivate' =
                  IF activate THEN nextStepToActivate + 1 ELSE nextStepToActivate
           /\ stepBrightness' = Stored(scales)
           /\ mvpLeds' = updateSteps(mvpLeds, topology, Stored(scales), 0)
           /\ mvpPc' = IF elapsed >= animationDuration \/ ~anyStepActive
                       THEN "return"
                       ELSE "frame"
    /\ mvpMillis' = mvpMillis + frameTime
    /\ UNCHANGED <<frameTime, topology, animationStart>>
    /\ UNCHANGED <<mapVars, sweepVars, stackVars, tetrisVars, fallingVars, matrixVars, conwayVars>>

(* Behind the while loop: FastLED.clear(); FastLED.show(); and, back in    *)
(* loop(), delay(10)                                                       *)
cascadeReturn ==
    /\ mvpPc = "return"
    /\ mvpLeds' = clearedLeds
    /\ mvpPc' = "loop"
    /\ mvpMillis' = mvpMillis + 10
    /\ UNCHANGED <<frameTime, topology, stepStates, animationStart,
                   nextStepToActivate, currentMs, stepBrightness>>
    /\ UNCHANGED <<mapVars, sweepVars, stackVars, tetrisVars, fallingVars, matrixVars, conwayVars>>

CascadeNext ==
    \/ setupMvp
    \/ loopMvp
    \/ cascadeFrame
    \/ cascadeReturn

InitCascade == CascadeInit /\ MapIdle /\ SweepIdle /\ StackIdle /\ TetrisIdle /\ FallingIdle /\ MatrixIdle /\ ConwayIdle

SpecCascade == InitCascade /\ [][CascadeNext]_vars

(* SpecCascadeLive: the same, with a processor that keeps executing and a  *)
(* clock that advances. From mvpPc = "frame" the only step of CascadeNext  *)
(* is cascadeFrame, which is always enabled there and moves the clock on   *)
(* by frameTime; from "return" the only step is cascadeReturn. Fairness is *)
(* stated on these two control steps.                                      *)
whileLoopRuns ==
    /\ mvpPc = "frame"
    /\ mvpMillis' = mvpMillis + frameTime
    /\ mvpPc' \in {"frame", "return"}

functionReturns ==
    /\ mvpPc = "return"
    /\ mvpPc' = "loop"

SpecCascadeLive ==
    /\ InitCascade
    /\ [][CascadeNext]_vars
    /\ WF_<<mvpPc, mvpMillis>>(whileLoopRuns)
    /\ WF_mvpPc(functionReturns)

-----------------------------------------------------------------------------
(* SpecSetup: the same setup() and loop(), for a build of mvp.ino whose    *)
(* tables LEDS_PER_STEP and STEP_START are those of the repository or an   *)
(* edit of them: rows 0 and 1 overlapping, or a gap before row 2.          *)

OverlapTopology ==
    [LEDS_PER_STEP |-> LEDS_PER_STEP,
     STEP_START |-> [STEP_START EXCEPT ![1] = 60]]

GapTopology ==
    [LEDS_PER_STEP |-> LEDS_PER_STEP,
     STEP_START |-> [STEP_START EXCEPT ![2] = 130]]

CompiledTopologies == {RepoTopology, OverlapTopology, GapTopology}

SetupInit ==
    /\ mvpPc = "setup"
    /\ mvpMillis = 0
    /\ frameTime \in FrameTimes
    /\ topology \in CompiledTopologies
    /\ stepStates = [s \in 0 .. STEP_COUNT - 1 |-> [turnOnTime |-> 0, isActive |-> FALSE]]
    /\ animationStart = 0
    /\ nextStepToActivate = 0
    /\ currentMs = 0
    /\ stepBrightness = [s \in 0 .. STEP_COUNT - 1 |-> 0]
    /\ mvpLeds = clearedLeds

InitSetup == SetupInit /\ MapIdle /\ SweepIdle /\ StackIdle /\ TetrisIdle /\ FallingIdle /\ MatrixIdle /\ ConwayIdle

SpecSetup == InitSetup /\ [][CascadeNext]_vars

-----------------------------------------------------------------------------
(* SpecTetris: loop() of the falling blocks. *)

(* void loop(): the piece falls one row, or it is locked, the board is     *)
(* reset (resetAnimation(); clearBoard();) or its full rows are cleared,   *)
(* and a new piece is spawned; then renderBoard()                          *)
tetrisLoop ==
    /\ IF canPlace(board, currentPiece, currentRotation, pieceX, pieceY + 1)
       THEN /\ pieceY' = pieceY + 1
            /\ lastMove' = "fell"
            /\ UNCHANGED <<board, boardColors, currentPiece, currentRotation,
                           pieceX, pieceColor>>
       ELSE LET fresh == lockedCells(currentPiece, currentRotation, pieceX, pieceY)
                locked == [c \in board \cup fresh |->
                              IF c \in fresh THEN pieceColor ELSE boardColors[c]]
                reset == shouldReset(currentPiece, currentRotation, pieceX, pieceY)
                colors == IF reset THEN <<>> ELSE clearFullRows(locked, STEP_COUNT - 1)
            IN  /\ boardColors' = colors
                /\ board' = DOMAIN colors
                /\ lastMove' = IF reset THEN "reset" ELSE "locked"
                /\ currentPiece' \in SpawnPieces
                /\ currentRotation' \in SpawnRotations
                /\ pieceColor' = PIECE_COLORS[currentPiece' + 1]
                /\ pieceX' \in SpawnColumns
                /\ pieceY' = 0 - 4
    /\ tetrisLeds' = renderBoard(boardColors', currentPiece', currentRotation',
                                 pieceX', pieceY', pieceColor')
    /\ UNCHANGED <<mapVars, sweepVars, stackVars, cascadeVars, fallingVars, matrixVars, conwayVars>>

TetrisNext == tetrisLoop

InitTetris == TetrisInit /\ MapIdle /\ SweepIdle /\ StackIdle /\ CascadeIdle /\ FallingIdle /\ MatrixIdle /\ ConwayIdle

SpecTetris == InitTetris /\ [][TetrisNext]_vars

-----------------------------------------------------------------------------
(* SpecFalling: setup() and loop() of the falling colours. *)

(* void setup(): 14 colours, updateLeds(), FastLED.show() *)
setupFalling ==
    /\ fcPc = "setup"
    /\ LET drawn == drawStepColors(stepColors, rand16seed, 0)
       IN  /\ stepColors' = drawn.colors
           /\ rand16seed' = drawn.seed
           /\ fcLeds' = Stored(updateLeds(fcLeds, drawn.colors))
    /\ fcPc' = "loop"
    /\ UNCHANGED <<fcTicks, drawnColors>>
    /\ UNCHANGED <<mapVars, sweepVars, stackVars, cascadeVars, tetrisVars, matrixVars, conwayVars>>

(* void loop(): shiftColorsDown(), updateLeds(), FastLED.delay(1000) *)
loopFalling ==
    /\ fcPc = "loop"
    /\ fcTicks < FallTicks
    /\ LET fresh == randomHappyColor(rand16seed)
           shifted == shiftColorsDown(stepColors, fresh)
       IN  /\ stepColors' = shifted
           /\ fcLeds' = Stored(updateLeds(fcLeds, shifted))
           /\ drawnColors' = SubSeq(<<fresh>> \o drawnColors, 1,
                                    Min(Len(drawnColors) + 1, STEP_COUNT))
    /\ rand16seed' = rand16(rand16seed)
    /\ fcTicks' = fcTicks + 1
    /\ UNCHANGED fcPc
    /\ UNCHANGED <<mapVars, sweepVars, stackVars, cascadeVars, tetrisVars, matrixVars, conwayVars>>

FallingNext == setupFalling \/ loopFalling

InitFalling == FallingInit /\ MapIdle /\ SweepIdle /\ StackIdle /\ CascadeIdle /\ TetrisIdle /\ MatrixIdle /\ ConwayIdle

SpecFalling == InitFalling /\ [][FallingNext]_vars

-----------------------------------------------------------------------------
(* SpecMatrix: loop() of the raindrops with the PIR sensor high, up to     *)
(* MatrixFrames iterations of the while loop of runMatrixAnimation.        *)

(* loop() finds PIR_PIN high and calls runMatrixAnimation(), which         *)
(* initialises the drops; now[d] tells whether random(0, 2) == 0 for drop  *)
(* d                                                                       *)
initRaindrops ==
    /\ mxPc = "loop"
    /\ \E now \in [1 .. RainDrops -> BOOLEAN] :
        /\ raindrops' \in
               {drops \in [1 .. RainDrops -> initRaindrop(TRUE) \cup initRaindrop(FALSE)] :
                   \A d \in 1 .. RainDrops : drops[d] \in initRaindrop(now[d])}
        /\ startedNow' = {d \in 1 .. RainDrops : now[d]}
    /\ mxPc' = "frame"
    /\ mxFrames' = 0
    /\ UNCHANGED <<mxMillis, mxLeds>>
    /\ UNCHANGED <<mapVars, sweepVars, stackVars, cascadeVars, tetrisVars, fallingVars, conwayVars>>

(* One iteration of the while loop: FastLED.clear(), the drops updated and *)
(* drawn, FastLED.show(), delay(FRAME_DELAY_MS)                            *)
matrixFrame ==
    /\ mxPc = "frame"
    /\ mxFrames < MatrixFrames
    /\ \E drops \in updateRaindrops(raindrops, mxMillis, 1) :
        /\ raindrops' = drops
        /\ mxLeds' = drawRaindrops(<<>>, drops, 1)
    /\ mxMillis' = mxMillis + ShowMs + FRAME_DELAY_MS
    /\ mxFrames' = mxFrames + 1
    /\ UNCHANGED <<mxPc, startedNow>>
    /\ UNCHANGED <<mapVars, sweepVars, stackVars, cascadeVars, tetrisVars, fallingVars, conwayVars>>

MatrixNext == initRaindrops \/ matrixFrame

InitMatrix == MatrixInit /\ MapIdle /\ SweepIdle /\ StackIdle /\ CascadeIdle /\ TetrisIdle /\ FallingIdle /\ ConwayIdle

SpecMatrix == InitMatrix /\ [][MatrixNext]_vars

-----------------------------------------------------------------------------
(* SpecConway: loop() of conway.ino. *)

(* void loop(); pir is digitalRead(PIR_PIN) == HIGH and ms the low 16 bits *)
(* of millis() in this call                                                *)
loopConway ==
    /\ cwLoops < ConwayLoops
    /\ \E pir \in BOOLEAN :
        \E ms \in IF (pir /\ ~motionDetected) \/ isGridEmpty(currentGen)
                  THEN ConwaySeeds ELSE {0} :
            LET start == pir /\ ~motionDetected
                grid1 == IF start
                         THEN initializeGrid(ms)
                         ELSE [current |-> currentGen, next |-> nextGen,
                               seed |-> cwRand16seed]
                empty == isGridEmpty(grid1.current)
                grid2 == IF empty THEN initializeGrid(ms) ELSE grid1
                computed == computeNextGeneration(grid2.current, grid2.next)
            IN  IF motionDetected \/ pir
                THEN /\ motionDetected' = TRUE
                     /\ cwLeds' = updateDisplay(cwLeds, grid2.current)
                     /\ nextGen' = computed
                     /\ currentGen' = computed
                     /\ cwRand16seed' = grid2.seed
                     /\ reseeded' = (start \/ empty)
                     /\ cwLoops' = cwLoops + 1
                ELSE UNCHANGED conwayVars
    /\ UNCHANGED <<mapVars, sweepVars, stackVars, cascadeVars, tetrisVars, fallingVars, matrixVars>>

ConwayNext == loopConway

InitConway == ConwayInit /\ MapIdle /\ SweepIdle /\ StackIdle /\ CascadeIdle /\ TetrisIdle /\ FallingIdle /\ MatrixIdle

SpecConway == InitConway /\ [][ConwayNext]_vars

-----------------------------------------------------------------------------
(* Properties of the index mapper, checked under SpecMap.                  *)

(* The columns of row s that have no LED: the row's virtual prefix         *)
VirtualPrefix(s) == MAX_LEDS_PER_STEP - LEDS_PER_STEP[s]

RowRange(s) == STEP_START[s] .. (STEP_START[s] + LEDS_PER_STEP[s] - 1)

(* C1: on the cells that have an LED, xyToIndex is injective and onto      *)
(* 0..979, and row s owns exactly STEP_START[s] .. STEP_START[s] +         *)
(* LEDS_PER_STEP[s] - 1. For the cell of the state: its index lies in its  *)
(* row's range, no other cell of the row has that index, and the slot of   *)
(* the range that is as far from the start as the cell is from the prefix  *)
(* is the index of some cell of the row; and the ranges of the rows follow *)
(* one another from 0 to NUM_LEDS, so that cells of different rows cannot  *)
(* share an index and no index is left over.                               *)
C1_Bijection ==
    /\ STEP_START[0] = 0
    /\ \A s \in 0 .. STEP_COUNT - 2 :
           STEP_START[s] + LEDS_PER_STEP[s] = STEP_START[s + 1]
    /\ STEP_START[STEP_COUNT - 1] + LEDS_PER_STEP[STEP_COUNT - 1] = NUM_LEDS
    /\ (called /\ isValidCell(step, pos)) =>
           /\ index \in RowRange(step)
           /\ index \in 0 .. NUM_LEDS - 1
           /\ \A p \in 0 .. MAX_LEDS_PER_STEP - 1 :
                  (isValidCell(step, p) /\ p # pos) => xyToIndex(step, p) # index
           /\ \E p \in 0 .. MAX_LEDS_PER_STEP - 1 :
                  /\ isValidCell(step, p)
                  /\ xyToIndex(step, p) = STEP_START[step] + (pos - VirtualPrefix(step))

(* The last LED of the strip is the leftmost cell of the bottom row        *)
C1_Witness ==
    called /\ step = STEP_COUNT - 1 /\ pos = 0 /\ index = NUM_LEDS - 1

(* C2: for a column in the virtual prefix of row 0 or 1 (pos 0..6),        *)
(* xyToIndex returns NUM_LEDS, in every variant of the function.           *)
C2_PrefixIsSentinel ==
    (called /\ step \in {0, 1} /\ pos \in 0 .. VirtualPrefix(step) - 1) =>
        index = NUM_LEDS

C2_Witness ==
    called /\ sketch = "mvp" /\ step = 1 /\ pos = 6 /\ index = NUM_LEDS

(* C3: in every variant of xyToIndex, an address with step outside 0..13   *)
(* or pos outside 0..70 gives NUM_LEDS, and the tables STEP_START and      *)
(* LEDS_PER_STEP are not read outside 0..13.                               *)
C3_FailsClosed ==
    (called /\ (step < 0 \/ step >= STEP_COUNT \/ pos < 0 \/ pos >= MAX_LEDS_PER_STEP)) =>
        /\ index = NUM_LEDS
        /\ tableReads \subseteq 0 .. STEP_COUNT - 1

C5_DocumentedSignalPath ==
    (called /\ isValidCell(step, pos)) =>
        IF step % 2 = 0
        THEN index = STEP_START[step] + (MAX_LEDS_PER_STEP - 1 - pos)
        ELSE index = STEP_START[step] + (pos - VirtualPrefix(step))

-----------------------------------------------------------------------------
(* Properties of the buffer writers, checked under SpecSweep.              *)

(* C6: every assignment to leds[] uses an index in 0..NUM_LEDS-1: a cell   *)
(* for which xyToIndex returns NUM_LEDS is not written.                    *)
C6_WritesInBounds ==
    lastWrite # NoWrite => lastWrite \in 0 .. NUM_LEDS - 1

-----------------------------------------------------------------------------
(* Properties of the stacked animation, checked under Spec.                *)

(* What the stack slots from a on hold for step s on channel ch, added up  *)
RECURSIVE channelSum(_, _, _)
channelSum(s, ch, a) ==
    IF a >= animation_stack_size
    THEN 0
    ELSE animation_stack_steps[StepCell(a, s)][ch] + channelSum(s, ch, a + 1)

(* C7: when displayLeds has run, every channel of every LED holds the sum  *)
(* of what the stack slots 0..size-1 hold for the LED's step on that       *)
(* channel, or 255 when the sum is larger; with an empty stack the frame   *)
(* is black.                                                               *)
C7_SaturatingSum ==
    pc = "frameLimiter" =>
        \A i \in DOMAIN leds : \A ch \in 1 .. 3 :
            leds[i][ch] = Min(255, channelSum(i \div STACK_LEDS_PER_STEP, ch, 0))

(* Two instances that each contribute less than 255 add up to more         *)
C7_Witness ==
    /\ pc = "frameLimiter"
    /\ \E i \in DOMAIN leds : \E a \in 0 .. animation_stack_size - 1 :
       \E b \in 0 .. animation_stack_size - 1 :
           LET s == i \div STACK_LEDS_PER_STEP
           IN  /\ a # b
               /\ animation_stack_steps[StepCell(a, s)][1] \in 1 .. 254
               /\ animation_stack_steps[StepCell(b, s)][1] \in 1 .. 254
               /\ channelSum(s, 1, 0) > 255
               /\ leds[i][1] = 255

(* C8: the stack never holds more than ANIMATION_STACK_SIZE_MAX instances  *)
(* and pushStack never writes at an index from ANIMATION_STACK_SIZE_MAX    *)
(* on.                                                                     *)
C8_StackBounded ==
    /\ animation_stack_size <= ANIMATION_STACK_SIZE_MAX
    /\ pushed \subseteq 0 .. ANIMATION_STACK_SIZE_MAX - 1

(* Sensor s has something in range in the step's sensorLoop and its last   *)
(* trigger is more than WAIT_BETWEEN_TRIGGERS ago                          *)
passesRateLimit(s, last_trigger_time) ==
    /\ s \in present'
    /\ Sub32(clock, last_trigger_time) > WAIT_BETWEEN_TRIGGERS

(* C9: a sensorLoop that starts with ANIMATION_STACK_SIZE_MAX instances    *)
(* or more admits nothing and no instance is admitted as the eleventh;     *)
(* and when the animationLoop before it removed an expired instance, a     *)
(* trigger that passes the rate limit is admitted.                         *)
C9_Admission ==
    [][pc = "sensorLoop" =>
           /\ animation_stack_size >= ANIMATION_STACK_SIZE_MAX =>
                  animation_stack_size' = animation_stack_size
           /\ \A k \in pushed' : k < ANIMATION_STACK_SIZE_MAX
           /\ (/\ popped > 0
               /\ \/ passesRateLimit("top", last_trigger_time_top)
                  \/ passesRateLimit("bottom", last_trigger_time_bottom)) =>
                  animation_stack_size' > animation_stack_size]_vars

(* C10: animate never runs on an instance that is older than               *)
(* ANIMATION_RUNTIME, and displayLeds never sums one, whatever its slot.   *)
C10_NoExpiredEvaluated ==
    /\ \A a \in evaluated : ~isExpired(clock, animation_stack_start_times[a])
    /\ pc = "displayLeds" =>
           \A a \in 0 .. animation_stack_size - 1 :
               ~isExpired(clock, animation_stack_start_times[a])

-----------------------------------------------------------------------------
(* Properties of the stack under eviction, checked under Spec.             *)

(* C11: evicting an instance does not change the slot of an instance that  *)
(* is still live: whenever the stack shrinks, every instance that was at   *)
(* a slot behind the evicted front is afterwards still live at that same   *)
(* slot, with its start time and starting point.                           *)
C11_SlotsStable ==
    [][animation_stack_size' < animation_stack_size =>
          \A i \in 1 .. animation_stack_size - 1 :
              /\ i < animation_stack_size'
              /\ animation_stack_start_times'[i] = animation_stack_start_times[i]
              /\ animation_stack_starting_point'[i] =
                     animation_stack_starting_point[i]]_vars

-----------------------------------------------------------------------------
(* Properties of one frame, checked under SpecFrame.                       *)

(* C12: in every iteration of loop() FastLED.show() is called exactly      *)
(* once, after every live instance has been evaluated and summed into the  *)
(* buffer: none before displayLeds, one when displayLeds has run (with     *)
(* every stack slot evaluated), and still one when frameLimiter has run.   *)
C12_ShowOncePerFrame ==
    /\ pc \in {"animationLoop", "displayLeds"} => shows = 0
    /\ pc = "frameLimiter" =>
           /\ shows = 1
           /\ evaluated = 0 .. animation_stack_size - 1
    /\ pc = "sensorLoop" /\ clock # 0 => shows = 1

(* C13: frameLimiter, with d the time since frame_start_time: if d is      *)
(* below FRAME_DURATION_MAX it delays exactly FRAME_DURATION_MAX - d, else *)
(* not at all; it returns at the time it read plus that delay, and         *)
(* frame_start_time is then the current time.                              *)
C13_FrameLimiter ==
    [][pc = "frameLimiter" =>
          /\ frame_duration' < FRAME_DURATION_MAX =>
                 reamining_duration' = FRAME_DURATION_MAX - frame_duration'
          /\ frame_duration' >= FRAME_DURATION_MAX => reamining_duration' = 0
          /\ clock' = frame_start_time + frame_duration' + reamining_duration'
          /\ frame_start_time' = clock']_vars

(* A frame of 5 ms was stretched to FRAME_DURATION_MAX, and the frame      *)
(* after it overran (21 ms) and was not delayed.                           *)
C13_Witness ==
    /\ pc = "sensorLoop"
    /\ frame_duration = 21
    /\ reamining_duration = 0
    /\ clock = MaxClock - FineSpan + FRAME_DURATION_MAX + 21

(* C14: rate limiting by the sensor code. In sensorLoop a sensor admits    *)
(* an animation only if something is within MAX_SONAR_DISTANCE of it and   *)
(* its own previous admission is more than WAIT_BETWEEN_TRIGGERS ms ago;   *)
(* it then records the admission time, and a sensor that does not admit    *)
(* keeps its record whatever the other sensor does. Nothing else changes   *)
(* the records.                                                            *)
C14_RateLimit ==
    [][LET topAdmitted ==
               \E i \in pushed' : animation_stack_starting_point'[i] = TOP
           bottomAdmitted ==
               \E i \in pushed' : animation_stack_starting_point'[i] = BOTTOM
       IN  IF pc = "sensorLoop"
           THEN /\ topAdmitted =>
                       /\ "top" \in present'
                       /\ clock - last_trigger_time_top > WAIT_BETWEEN_TRIGGERS
                       /\ last_trigger_time_top' = clock
                /\ ~topAdmitted => last_trigger_time_top' = last_trigger_time_top
                /\ bottomAdmitted =>
                       /\ "bottom" \in present'
                       /\ clock - last_trigger_time_bottom > WAIT_BETWEEN_TRIGGERS
                       /\ last_trigger_time_bottom' = clock
                /\ ~bottomAdmitted =>
                       last_trigger_time_bottom' = last_trigger_time_bottom
           ELSE /\ last_trigger_time_top' = last_trigger_time_top
                /\ last_trigger_time_bottom' = last_trigger_time_bottom]_vars

(* The top sensor admitted in the first frame and, with somebody still in  *)
(* range in a later frame, does not admit again; the bottom sensor, with   *)
(* its own record 2 s old, has somebody in range and does not admit.       *)
C14_Witness ==
    /\ pc = "animationLoop"
    /\ clock > MaxClock - FineSpan
    /\ last_trigger_time_top = MaxClock - FineSpan
    /\ present = {"top", "bottom"}
    /\ pushed = {}

-----------------------------------------------------------------------------
(* Properties of animate, checked under Spec.                              *)

(* C17: evaluation is idempotent and depends only on the elapsed time and  *)
(* the instance's start time and starting point: for a slot evaluated in   *)
(* this frame, evaluating it again leaves its per-step colours as they     *)
(* are, and they are the colours animate gives on a black buffer.          *)
C17_EvaluateIsFunction ==
    \A a \in evaluated :
        a < ANIMATION_STACK_SIZE_MAX =>
            LET again == animate(animation_stack_steps, clock,
                                 animation_stack_start_times[a],
                                 animation_stack_starting_point[a], a)
                fresh == animate([c \in StepCells |-> Black], clock,
                                 animation_stack_start_times[a],
                                 animation_stack_starting_point[a], a)
            IN  \A j \in 0 .. NUM_STEPS - 1 :
                    /\ again[StepCell(a, j)] = animation_stack_steps[StepCell(a, j)]
                    /\ fresh[StepCell(a, j)] = animation_stack_steps[StepCell(a, j)]

(* The step that is k-th to light: from step 0 down for TOP, from step     *)
(* NUM_STEPS - 1 up for BOTTOM                                             *)
stepInOrder(starting_point, k) ==
    IF starting_point = TOP THEN k ELSE NUM_STEPS - 1 - k

(* C19: an instance admitted by the TOP sensor lights step 0 first and     *)
(* step NUM_STEPS - 1 last, one admitted by the BOTTOM sensor the other    *)
(* way round, and the k-th step in that order is 1000 * k ms behind the    *)
(* first: after animate its colour is the brightness at the elapsed time   *)
(* less 1000 * k.                                                          *)
C19_StartingEdge ==
    \A a \in evaluated :
        a < ANIMATION_STACK_SIZE_MAX =>
            \A k \in 0 .. NUM_STEPS - 1 :
                LET value == brightness(Sub32(Sub32(clock,
                                 animation_stack_start_times[a]), k * 1000))
                IN  animation_stack_steps[
                        StepCell(a, stepInOrder(animation_stack_starting_point[a], k))]
                    = <<value, value, value>>

-----------------------------------------------------------------------------
(* Properties of the instances' buffers and of the stack, checked under    *)
(* Spec.                                                                   *)

(* The cells of animation_stack_steps[a]                                   *)
ownCells(a) == {StepCell(a, j) : j \in 0 .. NUM_STEPS - 1}

(* C26: evaluating one stack instance writes only indices 0..NUM_STEPS-1   *)
(* of that instance's own per-step buffer: in every call of animate, for   *)
(* every i in 0..NUM_STEPS-1 the index written is within 0..NUM_STEPS-1,   *)
(* and no cell outside the buffer of the evaluated slot changes.           *)
C26_AnimateWritesOwnBuffer ==
    [][(pc = "animationLoop" /\ slot' = slot + 1) =>
          /\ \A i \in 0 .. NUM_STEPS - 1 :
                 led_index(animation_stack_starting_point[slot], i)
                     \in 0 .. NUM_STEPS - 1
          /\ \A c \in StepCells \ ownCells(slot) :
                 animation_stack_steps'[c] = animation_stack_steps[c]]_vars

(* C27: when displayLeds runs, every step s of every live instance a holds *)
(* the value animate computed in this frame from that instance's own start *)
(* time and starting point: some iteration i of animate on a has s as its  *)
(* index and the step holds the brightness of that iteration.              *)
C27_BuffersAreFresh ==
    pc = "displayLeds" =>
        \A a \in 0 .. Min(animation_stack_size, ANIMATION_STACK_SIZE_MAX) - 1 :
            \A s \in 0 .. NUM_STEPS - 1 :
                \E i \in 0 .. NUM_STEPS - 1 :
                    LET value == brightness(Sub32(Sub32(clock,
                                     animation_stack_start_times[a]), i * 1000))
                    IN  /\ led_index(animation_stack_starting_point[a], i) = s
                        /\ animation_stack_steps[StepCell(a, s)] =
                               <<value, value, value>>

(* C28: the stack is kept in admission order: the start times at indices   *)
(* 0..animation_stack_size-1 are non-decreasing, so the front is the       *)
(* oldest live instance.                                                   *)
C28_AdmissionOrder ==
    \A i \in 0 .. animation_stack_size - 1 :
        \A j \in i .. animation_stack_size - 1 :
            animation_stack_start_times[i] <= animation_stack_start_times[j]

(* C29: popStack removes exactly the front instance: the size is one less  *)
(* and, for every i below the new size, the start time and the starting    *)
(* point at index i are those that were at index i + 1 before the call.    *)
C29_PopRemovesFront ==
    [][popped' = popped + 1 =>
          /\ animation_stack_size' = animation_stack_size - 1
          /\ \A i \in 0 .. animation_stack_size' - 1 :
                 /\ animation_stack_start_times'[i] =
                        animation_stack_start_times[i + 1]
                 /\ animation_stack_starting_point'[i] =
                        animation_stack_starting_point[i + 1]]_vars

(* popStack has run in this animationLoop and left two instances or more,  *)
(* which differ in start time and in starting point                        *)
C29_Witness ==
    /\ popped > 0
    /\ animation_stack_size >= 2
    /\ animation_stack_start_times[0] < animation_stack_start_times[1]
    /\ animation_stack_starting_point[0] # animation_stack_starting_point[1]

-----------------------------------------------------------------------------
(* Properties of the cascading fade, checked under SpecCascade.            *)

(* C15: hold-then-fade brightness. In every frame the brightness of an     *)
(* inactive step is 0 and that of an active step, e ms after it turned on, *)
(* is 255 while e < hold, 255 - floor((e - hold) * 255 / fade) while       *)
(* hold <= e < hold + fade, and 0 from hold + fade on, hold and fade being *)
(* STEP_HOLD_MS and STEP_FADE_MS. With hold = 2000 and fade = 3000 the     *)
(* same function gives 255 at e = 1000, 127 or 128 at e = 3500 and 0 at    *)
(* e = 5001.                                                               *)
C15_HoldThenFade ==
    /\ mvpPc \in {"frame", "return"} =>
           \A s \in 0 .. STEP_COUNT - 1 :
               LET e == currentMs - stepStates[s].turnOnTime
               IN  stepBrightness[s] =
                       IF ~stepStates[s].isActive THEN 0
                       ELSE IF e < STEP_HOLD_MS THEN 255
                       ELSE IF e < STEP_HOLD_MS + STEP_FADE_MS
                            THEN 255 - (((e - STEP_HOLD_MS) * 255) \div STEP_FADE_MS)
                            ELSE 0
    /\ holdThenFade(2000, 3000, 1000) = 255
    /\ holdThenFade(2000, 3000, 3500) \in {127, 128}
    /\ holdThenFade(2000, 3000, 5001) = 0

(* A frame with one step held at 255, one fading and one faded out         *)
C15_Witness ==
    /\ mvpPc = "frame"
    /\ \E a, b, c \in 0 .. STEP_COUNT - 1 :
           /\ stepStates[a].isActive /\ stepBrightness[a] = 255
           /\ stepStates[b].isActive /\ stepBrightness[b] \in 1 .. 254
           /\ stepStates[c].isActive /\ stepBrightness[c] = 0

(* C16: the documented timing of the cascade. Consecutive steps turn on 1  *)
(* second apart (to the frame), and a step is at full brightness for the   *)
(* 2 seconds after it turned on, then fades linearly over 3 seconds and is *)
(* off after that.                                                         *)
C16_DocumentedTiming ==
    mvpPc \in {"frame", "return"} =>
        /\ \A s \in 0 .. STEP_COUNT - 2 :
               stepStates[s + 1].isActive =>
                   LET apart == stepStates[s + 1].turnOnTime - stepStates[s].turnOnTime
                   IN  apart >= 1000 /\ apart < 1000 + frameTime
        /\ \A s \in 0 .. STEP_COUNT - 1 :
               stepStates[s].isActive =>
                   LET e == currentMs - stepStates[s].turnOnTime
                   IN  /\ e < 2000 => stepBrightness[s] = 255
                       /\ e >= 2000 /\ e < 5000 =>
                              stepBrightness[s] = 255 - (((e - 2000) * 255) \div 3000)
                       /\ e >= 5000 => stepBrightness[s] = 0

(* The steps a frame of the while loop activates                           *)
newlyActive ==
    {s \in 0 .. STEP_COUNT - 1 : ~stepStates[s].isActive /\ stepStates'[s].isActive}

(* C31: cascade activation order. In every frame of one run of             *)
(* runCascadingAnimation at most one step is activated, and it is          *)
(* nextStepToActivate, so the steps come in the order 0, 1, ..., 13 with   *)
(* every lower step already active; step k is activated only when at least *)
(* k * STEP_ON_INTERVAL_MS have elapsed since animationStart, its          *)
(* turnOnTime is the time of that frame, and an active step stays active   *)
(* with its turnOnTime unchanged.                                          *)
C31_ActivationOrder ==
    [][mvpPc = "frame" =>
           LET elapsed == Sub32(currentMs', animationStart)
           IN  /\ Cardinality(newlyActive) <= 1
               /\ nextStepToActivate' = nextStepToActivate + Cardinality(newlyActive)
               /\ \A s \in 0 .. STEP_COUNT - 1 :
                      /\ stepStates[s].isActive => stepStates'[s] = stepStates[s]
                      /\ stepStates[s].isActive <=> s < nextStepToActivate
                      /\ s \in newlyActive =>
                             /\ s = nextStepToActivate
                             /\ elapsed >= s * STEP_ON_INTERVAL_MS
                             /\ stepStates'[s].turnOnTime = currentMs'
    ]_vars

(* All 14 steps have been activated, each later than the one below it; the *)
(* run with slow frames has activated a step later than its interval       *)
C31_Witness ==
    /\ mvpPc = "frame"
    /\ nextStepToActivate = STEP_COUNT
    /\ \A s \in 0 .. STEP_COUNT - 1 : stepStates[s].isActive
    /\ \A s \in 0 .. STEP_COUNT - 2 :
           stepStates[s].turnOnTime < stepStates[s + 1].turnOnTime
    /\ \E s \in 1 .. STEP_COUNT - 1 :
           stepStates[s].turnOnTime - animationStart > s * STEP_ON_INTERVAL_MS

(* C32: runCascadingAnimation terminates. An iteration of the while loop   *)
(* is the last one exactly when the elapsed time has reached               *)
(* (STEP_COUNT - 1) * STEP_ON_INTERVAL_MS + STEP_HOLD_MS + STEP_FADE_MS or *)
(* no step has a brightness above 0; behind the loop the buffer is cleared *)
(* and control is in loop() again; and every run that has entered the      *)
(* while loop gets there. Checked under SpecCascadeLive.                   *)
C32_CascadeTerminates ==
    /\ [][mvpPc = "frame" =>
              LET elapsed == Sub32(currentMs', animationStart)
                  lifetime == (STEP_COUNT - 1) * STEP_ON_INTERVAL_MS
                                  + STEP_HOLD_MS + STEP_FADE_MS
              IN  /\ mvpPc' \in {"frame", "return"}
                  /\ mvpPc' = "return" <=>
                         \/ elapsed >= lifetime
                         \/ \A s \in 0 .. STEP_COUNT - 1 : stepBrightness'[s] = 0
         ]_vars
    /\ [][mvpPc = "return" =>
              /\ mvpPc' = "loop"
              /\ \A i \in 0 .. NUM_LEDS - 1 : mvpLeds'[i] = Black
         ]_vars
    /\ (mvpPc = "frame") ~>
           (mvpPc = "loop" /\ \A i \in 0 .. NUM_LEDS - 1 : mvpLeds[i] = Black)

(* Back in loop() with a black buffer after a run that lit all 14 steps    *)
C32_Witness ==
    /\ mvpPc = "loop"
    /\ nextStepToActivate = STEP_COUNT
    /\ \A s \in 0 .. STEP_COUNT - 1 : stepStates[s].isActive
    /\ \A i \in 0 .. NUM_LEDS - 1 : mvpLeds[i] = Black

(* C33: every step runs its complete life cycle. When the while loop of    *)
(* runCascadingAnimation has exited, all 14 steps have been activated and  *)
(* the brightness computed for every step in the last frame is 0, whatever *)
(* the time an iteration takes.                                            *)
C33_CompleteLifeCycle ==
    mvpPc = "return" =>
        /\ nextStepToActivate = STEP_COUNT
        /\ \A s \in 0 .. STEP_COUNT - 1 :
               stepStates[s].isActive /\ stepBrightness[s] = 0

-----------------------------------------------------------------------------
(* Properties of setup() of mvp.ino, checked under SpecSetup.              *)

(* The row ranges of the tables t follow one another from 0 to NUM_LEDS    *)
TopologyConsistent(t) ==
    /\ t.STEP_START[0] = 0
    /\ \A s \in 0 .. STEP_COUNT - 2 :
           t.STEP_START[s + 1] = t.STEP_START[s] + t.LEDS_PER_STEP[s]
    /\ t.STEP_START[STEP_COUNT - 1] + t.LEDS_PER_STEP[STEP_COUNT - 1] = NUM_LEDS

(* C18: with tables whose row ranges overlap or leave gaps the program     *)
(* refuses to start: it does not get past setup(), renders no frame and    *)
(* writes no LED.                                                          *)
C18_RefusesInconsistentTopology ==
    ~TopologyConsistent(topology) =>
        /\ mvpPc = "setup"
        /\ mvpLeds = clearedLeds

-----------------------------------------------------------------------------
(* Properties of the falling blocks, checked under SpecTetris.             *)

(* The rows that are full once the cells fresh are added to the board b    *)
fullRows(b, fresh) ==
    {row \in 0 .. STEP_COUNT - 1 :
        \A col \in 0 .. MAX_LEDS_PER_STEP - 1 : <<row, col>> \in b \cup fresh}

(* C20: a piece starts with all its cells above the top row and falls one  *)
(* row per loop() while it can. When it locks with a filled cell above the *)
(* visible area (row < 0) the whole board is empty before the next piece   *)
(* spawns. When it locks entirely inside the visible area the board keeps  *)
(* every locked cell and gains the four of the piece, unless a row is      *)
(* full then: each full row takes its MAX_LEDS_PER_STEP cells with it.     *)
C20_TetrisReset ==
    [][LET cells == pieceCells(currentPiece, currentRotation, pieceX, pieceY)
       IN  IF canPlace(board, currentPiece, currentRotation, pieceX, pieceY + 1)
           THEN /\ board' = board
                /\ pieceY' = pieceY + 1
                /\ <<currentPiece', currentRotation', pieceX'>> =
                       <<currentPiece, currentRotation, pieceX>>
           ELSE /\ \A c \in pieceCells(currentPiece', currentRotation',
                                        pieceX', pieceY') : c[1] < 0
                /\ IF \E c \in cells : c[1] < 0
                   THEN board' = {}
                   ELSE /\ fullRows(board, cells) = {} => board' = board \cup cells
                        /\ Cardinality(board') =
                               Cardinality(board \cup cells)
                               - MAX_LEDS_PER_STEP * Cardinality(fullRows(board, cells))
                        /\ Cardinality(board \cup cells) = Cardinality(board) + 4]_vars

(* The stack has reached the top: the last piece locked with a cell above  *)
(* row 0, the board is empty and the next piece is above the screen        *)
C20_Witness ==
    /\ lastMove = "reset"
    /\ board = {}
    /\ tetrisLeds = {}
    /\ pieceY = 0 - 4

-----------------------------------------------------------------------------
(* Properties of the falling colours, checked under SpecFalling.           *)

(* C21: on every tick the colour of step s becomes the previous colour of  *)
(* step s - 1 for s = 1..13 and step 0 receives the newly drawn colour;    *)
(* so the colour drawn k ticks before the last one is at step k (k <= 13), *)
(* and after updateLeds every real LED of step s holds stepColors[s].      *)
C21_ColoursFall ==
    [][fcPc = "loop" =>
          /\ \A s \in 1 .. STEP_COUNT - 1 : stepColors'[s] = stepColors[s - 1]
          /\ \A k \in 0 .. Len(drawnColors') - 1 :
                 stepColors'[k] = drawnColors'[k + 1]
          /\ \A s \in 0 .. STEP_COUNT - 1 :
                 \A p \in VirtualPrefix(s) .. MAX_LEDS_PER_STEP - 1 :
                     /\ xyToIndex(s, p) < NUM_LEDS
                     /\ fcLeds'[xyToIndex(s, p)] = stepColors'[s]]_vars

(* A colour that entered at step 0 has reached step 13, thirteen ticks     *)
(* later, with a different colour behind it, and shows on the LEDs of rows *)
(* 12 and 13                                                               *)
C21_Witness ==
    /\ Len(drawnColors) = STEP_COUNT
    /\ drawnColors[STEP_COUNT] # drawnColors[STEP_COUNT - 1]
    /\ stepColors[STEP_COUNT - 1] = drawnColors[STEP_COUNT]
    /\ fcLeds[NUM_LEDS - 1] = drawnColors[STEP_COUNT]
    /\ fcLeds[STEP_START[STEP_COUNT - 2]] = drawnColors[STEP_COUNT - 1]

-----------------------------------------------------------------------------
(* Properties of the raindrops, checked under SpecMatrix.                  *)

(* C22: a raindrop initialised with startNow = false does not start        *)
(* falling at once: it waits above the screen, at a step between -9 and    *)
(* -1, so that when the first frame has been drawn only the drops          *)
(* initialised with startNow = true are falling.                           *)
C22_StaggeredStart ==
    (mxPc = "frame" /\ mxFrames <= 1) =>
        \A d \in 1 .. RainDrops :
            d \notin startedNow =>
                /\ ~raindrops[d].active
                /\ raindrops[d].step \in (0 - 900) .. (0 - 100)

(* What drop contributes to the frame, as pairs <<index, colour>>: its     *)
(* head and the LEDs of its tail that are on the staircase                 *)
contributions(drop) ==
    IF ~drop.active
    THEN {}
    ELSE {c \in {<<xyToIndex(headStepOf(drop) - k, drop.column),
                   IF k = 0 THEN COLOR_HEAD ELSE tailColor(k)>> :
                     k \in {k \in 0 .. TAIL_LENGTH :
                               /\ headStepOf(drop) - k >= 0
                               /\ headStepOf(drop) - k < STEP_COUNT}} :
             c[1] < NUM_LEDS}

(* The sum of channel ch of what the drops from d on contribute to LED i   *)
RECURSIVE dropSum(_, _, _)
dropSum(i, ch, d) ==
    IF d > Len(raindrops)
    THEN 0
    ELSE LET here == {c \in contributions(raindrops[d]) : c[1] = i}
         IN  (IF here = {} THEN 0 ELSE (CHOOSE c \in here : TRUE)[2][ch])
             + dropSum(i, ch, d + 1)

(* C23: overlapping raindrops blend. After a frame every LED holds, in     *)
(* each channel, the saturating sum of what the drops contribute to it, so *)
(* no contribution is overwritten and the order of drawing does not        *)
(* matter.                                                                 *)
C23_RaindropsBlend ==
    (mxPc = "frame" /\ mxFrames > 0) =>
        \A i \in DOMAIN mxLeds \cup
                 UNION {{c[1] : c \in contributions(raindrops[d])} :
                           d \in 1 .. RainDrops} :
            \A ch \in 1 .. 3 :
                ledAt(mxLeds, i)[ch] = Min(dropSum(i, ch, 1), 255)

-----------------------------------------------------------------------------
(* Properties of the Game of Life, checked under SpecConway.               *)

(* The cells that have an LED                                              *)
RealCells ==
    {c \in {<<s, q>> : s \in 0 .. STEP_COUNT - 1, q \in 0 .. MAX_LEDS_PER_STEP - 1} :
        c[2] >= VirtualPrefix(c[1])}

(* The cells next to c, on the grid or not                                 *)
adjacent(c) ==
    {<<c[1] + a, c[2] + b>> : a \in 0 - 1 .. 1, b \in 0 - 1 .. 1} \ {c}

(* Conway's rules applied to every real cell of grid at once               *)
conwayRules(grid) ==
    {c \in RealCells :
        LET n == Cardinality(adjacent(c) \cap grid)
        IN  \/ c \in grid /\ n \in {2, 3}
            \/ c \notin grid /\ n = 3}

(* C24: computeNextGeneration applies Conway's rules synchronously on the  *)
(* real cells: after a loop() that did not re-seed the grid, a real cell   *)
(* is alive iff it was alive with 2 or 3 live neighbours or dead with      *)
(* exactly 3, counted in the generation before the call; cells off the     *)
(* grid or in the virtual prefix are dead.                                 *)
C24_ConwayRules ==
    [][(cwLoops' = cwLoops + 1 /\ ~reseeded') =>
          /\ currentGen \subseteq RealCells
          /\ currentGen' = conwayRules(currentGen)]_vars

(* C25: the animation re-seeds itself when the grid is empty or stable: a  *)
(* loop() that starts, with motion detected, on a generation without a     *)
(* live cell, or on one that Conway's rules leave as it is, calls          *)
(* initializeGrid before it displays.                                      *)
C25_ReseedsWhenEmptyOrStable ==
    [][(motionDetected /\ cwLoops' = cwLoops + 1) =>
          ((currentGen = {} \/ conwayRules(currentGen) = currentGen) =>
               reseeded')]_vars

=============================================================================
